---- MODULE Spec2Model ----
(***************************************************************************)
(* Editorial discovery-and-segmentation pipeline of the Codeforces contest *)
(* scraper: EditorialContentParser (fetch, clean, combine, segment, parse  *)
(* the LLM reply, normalise problem ids) and ContestService                *)
(* (get_contest, get_editorial_content).                                   *)
(*                                                                         *)
(* Text is a sequence of one-character strings.  A JSON value is a record  *)
(* [t, v]: t is "str" (v the characters), "num" (v the digits str() would  *)
(* print), "null" or "absent" (v empty).  Cyrillic letters, which the      *)
(* lexer of TLA+ does not take, are written by code point ("U+0417").      *)
(***************************************************************************)
EXTENDS Integers, Sequences, FiniteSets, Bags, TLC

VARIABLES
    nIn,        \* _normalize_problem_id: the argument (a JSON value)
    nOut,       \* _normalize_problem_id: the outcome, NoCall before the call
    pResp,      \* _parse_llm_response: the LLM's reply (a sequence of tokens)
    pOut,       \* _parse_llm_response: the outcome, NoCall before the call
    pc,             \* where the editorial request stands
    requested,      \* the requesting contest (the contest_id argument)
    llm_client,     \* whether an LLM client is configured
    full_text,      \* _segment_by_problems: the combined editorial text
    expected_problems,  \* the (contest_id, letter) pairs passed for context
    llmRequests,    \* the prompts sent to the LLM, in order
    llmReply,       \* what the last completion call gave: [exc, text]
    segOut,         \* _segment_by_problems: the outcome, NoCall before it ends
    editorial_parser,   \* whether the service has an editorial parser
    editorial_urls,     \* the argument of get_editorial_content: [given, urls]
    urls,           \* parse_editorial_content: the URLs to fetch
    idx,            \* parse_editorial_content: the position of the loop over urls
    all_content,    \* parse_editorial_content: the texts fetched so far
    failed_urls,    \* parse_editorial_content: the URLs that failed so far
    in_flight,      \* the fetches that were started and have not ended: [url, after],
                    \* after the number of fetches that had ended when it started
    contestWorld,   \* what get_contest met at the API and the page parser, NoWorld
                    \* before it is called
    httpLog,        \* the fetches made: [url, response, content], content what
                    \* _fetch_editorial_content gave for the response
    editorial_data, \* get_editorial_content: the outcome, NoCall before it ends
    soup,           \* the contest page: its anchors [href, text, area] in document order
    llm_editorial_finder,   \* whether the page parser has an LLM editorial finder
    finder_llm,     \* whether the finder has an LLM client
    finderRequests, \* the link lists sent to the LLM by the finder
    finderReply,    \* the completion the finder got, NoReply before it
    findOut,        \* find_editorial_url: what it returned, NoCall before it ends
    discOut,        \* _extract_editorial_url: what it returned, NoCall before it ends
    links,          \* _extract_links: the list it returned, NoCall before it ends
    tcExpected,     \* _is_result_correct: the expected editorial, a URL or None
    tcFound,        \* _is_result_correct: the found editorials
    isCorrectOut,   \* _is_result_correct: the outcome, NoCall before it ends
    runs_per_test,  \* BENCHMARK_SETTINGS["runs_per_test"]
    benchPage,      \* the contest page the site serves for the benchmarked contest
    html_cache,     \* BenchmarkRunner.html_cache: the contest ids it holds
    netLog,         \* the bag of the page requests http_client.get_text has answered
    runResults,     \* test_single_case_with_averaging: results, one TestResult a run
    averaged,       \* test_single_case_with_averaging: the outcome, NoCall before
    test_cases,     \* BENCHMARK_TEST_CASES
    parallel_requests, \* BENCHMARK_SETTINGS["parallel_requests"]
    batch_i,        \* benchmark_model: i of the loop over the batches
    taskRuns,       \* the runs each task of the batch has made so far
    taskOut,        \* the result of each task of the batch, NoCall while it runs
    running,        \* the runs each task of the batch has started and not finished
    results,        \* benchmark_model: results
    benchOut,       \* benchmark_model: the outcome, NoCall before it ends
    metrics,        \* calculate_metrics: the outcome, NoCall before it ends
    api_problem_data, \* _fetch_problem_details: the problem's entry of contest.standings
    problem_map,    \* _fetch_problem_details: the map built from problemset.problems
    problemPage,    \* whether parse_problem_in_contest returns the problem's page data
    problemOut,     \* _fetch_problem_details: the outcome, NoCall before it ends
    cleanIn,        \* _clean_extracted_text: the text of the first call
    cleanOut,       \* _clean_extracted_text: what the first call returned
    cleanAgain,     \* _clean_extracted_text: what the call on that result returned
    cache_client,   \* AsyncEditorialOrchestrator: whether it has a cache client
    use_cache,      \* AsyncEditorialOrchestrator.use_cache
    cacheStore,     \* what the cache holds: entries [key, data]
    orchRequests    \* the get_editorial calls made so far, one record a call

normVars == <<nIn, nOut>>
parseVars == <<pResp, pOut>>
segVars == <<pc, requested, llm_client, full_text, expected_problems, llmRequests,
             llmReply, segOut>>
pipeVars == <<editorial_parser, editorial_urls, urls, idx, all_content, failed_urls,
              httpLog, editorial_data, contestWorld, in_flight>>
discVars == <<soup, llm_editorial_finder, finder_llm, finderRequests, finderReply,
              findOut, discOut, links>>
modelVars == <<test_cases, parallel_requests, batch_i, taskRuns, taskOut, running, results,
               benchOut, metrics>>
benchVars == <<tcExpected, tcFound, isCorrectOut, runs_per_test, benchPage, html_cache, netLog,
              runResults, averaged, modelVars>>
averageVars == <<runs_per_test, benchPage, html_cache, netLog, runResults, averaged>>
ratingVars == <<api_problem_data, problem_map, problemPage, problemOut>>
cleanVars == <<cleanIn, cleanOut, cleanAgain>>
orchVars == <<cache_client, use_cache, cacheStore, orchRequests>>
otherVars == <<cleanVars, orchVars>>
restVars == <<ratingVars, otherVars>>
moreVars == <<discVars, benchVars, restVars>>
vars == <<nIn, nOut, pResp, pOut, pc, requested, llm_client, full_text,
          expected_problems, llmRequests, llmReply, segOut, editorial_parser,
          editorial_urls, urls, idx, all_content, failed_urls, httpLog, contestWorld,
          in_flight,
          editorial_data, soup, llm_editorial_finder, finder_llm, finderRequests,
          finderReply, findOut, discOut, links, tcExpected, tcFound, isCorrectOut,
          runs_per_test, benchPage, html_cache, netLog, runResults, averaged, test_cases,
          parallel_requests, batch_i, taskRuns, taskOut, running, results, benchOut,
          metrics,
          api_problem_data, problem_map, problemPage, problemOut, cleanIn, cleanOut,
          cleanAgain, cache_client, use_cache, cacheStore, orchRequests>>

(***************************************************************************)
(* Bounds of the model.                                                    *)
(***************************************************************************)
MaxIdLen == 2        \* problem ids enumerated exhaustively up to this length
MaxRows == 2         \* elements of a "problems" array
MaxPairs == 2        \* key/value pairs of a legacy reply
Slack == 1           \* text lengths are taken this far below and above a threshold
MaxPad == 1          \* whitespace characters before and after a text
MaxUrls == 2         \* editorial URLs of one request
MaxDocs == 3         \* texts handed to one combine
MaxAnchors == 3      \* anchors of a contest page put together from the samples
MaxFound == 2        \* found editorial URLs of one run
MaxRuns == 3         \* runs of one test case
MaxCases == 3        \* test cases of a benchmark
MaxParallel == 2     \* test cases of one batch
MaxResults == 3      \* results handed to calculate_metrics
MaxBenchRuns == 2    \* runs_per_test of a benchmark_model call
MaxTotalRuns == 4    \* runs of all the test cases of a benchmark_model call
MaxLines == 3        \* lines of a text given to _clean_extracted_text
MaxRequests == 2     \* get_editorial calls of one orchestrator
MaxProblemset == 2   \* problems of the problemset.problems response

(***************************************************************************)
(* Characters and Python's str methods.                                    *)
(***************************************************************************)
LowerLatin == <<"a","b","c","d","e","f","g","h","i","j","k","l","m",
                "n","o","p","q","r","s","t","u","v","w","x","y","z">>
UpperLatin == <<"A","B","C","D","E","F","G","H","I","J","K","L","M",
                "N","O","P","Q","R","S","T","U","V","W","X","Y","Z">>
\* the Cyrillic letters of the word ZADACHA: Ze, A, De, Che
\* and of RAZBOR: Er, Be, O
LowerCyr == <<"U+0437","U+0430","U+0434","U+0447","U+0440","U+0431","U+043E">>
UpperCyr == <<"U+0417","U+0410","U+0414","U+0427","U+0420","U+0411","U+041E">>
LowerAll == LowerLatin \o LowerCyr
UpperAll == UpperLatin \o UpperCyr

Range(s) == {s[i] : i \in 1..Len(s)}

\* str.isalpha() of one character
IsAlpha(c) == c \in Range(LowerAll) \cup Range(UpperAll)

\* str.isspace() of one character
IsSpace(c) == c \in {" ", "\t", "\n", "\r"}

\* str.upper() of one character
UpperChar(c) ==
    IF c \in Range(LowerAll)
    THEN UpperAll[CHOOSE i \in 1..Len(LowerAll) : LowerAll[i] = c]
    ELSE c

\* str.lower() of one character
LowerChar(c) ==
    IF c \in Range(UpperAll)
    THEN LowerAll[CHOOSE i \in 1..Len(UpperAll) : UpperAll[i] = c]
    ELSE c

\* str.upper()
Upper(s) == [i \in 1..Len(s) |-> UpperChar(s[i])]

Min(S) == CHOOSE x \in S : \A y \in S : x <= y
Max(S) == CHOOSE x \in S : \A y \in S : x >= y

RECURSIVE FirstNonSpace(_, _)
\* the first index from i on that holds no whitespace, Len(s) + 1 if none
FirstNonSpace(s, i) ==
    IF i > Len(s) \/ ~IsSpace(s[i]) THEN i ELSE FirstNonSpace(s, i + 1)

RECURSIVE LastNonSpace(_, _)
\* the last index up to i that holds no whitespace, 0 if none
LastNonSpace(s, i) ==
    IF i < 1 \/ ~IsSpace(s[i]) THEN i ELSE LastNonSpace(s, i - 1)

\* str.strip(): without the leading and trailing whitespace
Strip(s) == SubSeq(s, FirstNonSpace(s, 1), LastNonSpace(s, Len(s)))

\* str.startswith(prefix)
StartsWith(s, prefix) ==
    /\ Len(s) >= Len(prefix)
    /\ SubSeq(s, 1, Len(prefix)) = prefix

\* str.split()[-1] of a text that does not end in whitespace: the last token
LastToken(s) ==
    LET sp == {i \in 1..Len(s) : IsSpace(s[i])}
    IN  IF sp = {} THEN s ELSE SubSeq(s, Max(sp) + 1, Len(s))

(***************************************************************************)
(* JSON values.                                                            *)
(***************************************************************************)
JStr(s)  == [t |-> "str", v |-> s]
JNum(ds) == [t |-> "num", v |-> ds]
JNull    == [t |-> "null", v |-> <<>>]
JAbsent  == [t |-> "absent", v |-> <<>>]

\* Python truthiness of a decoded JSON scalar: "", None and 0 are falsy
Truthy(j) ==
    CASE j.t = "str"  -> j.v # <<>>
      [] j.t = "num"  -> j.v # <<"0">>
      [] j.t = "list" -> j.v # <<>>
      [] OTHER        -> FALSE

(***************************************************************************)
(* EditorialContentParser._normalize_problem_id.  The outcome is a record  *)
(* [kind, v]: "letter" (v the letter), "none" (the function returned None) *)
(* or "raise" (v the exception's class).                                   *)
(***************************************************************************)
NoCall      == [kind |-> "nocall", v |-> ""]
RetNone     == [kind |-> "none", v |-> ""]
RetLetter(c) == [kind |-> "letter", v |-> c]
Raise(exc)  == [kind |-> "raise", v |-> exc]

PROBLEM_ == <<"P","R","O","B","L","E","M"," ">>
ZADACHA_ == <<"U+0417","U+0410","U+0414","U+0410","U+0427","U+0410"," ">>

NormalizeProblemId(problem_id) ==
    IF ~Truthy(problem_id) \/ problem_id.t # "str" THEN RetNone
    ELSE LET s == Upper(Strip(problem_id.v))
             last == LastToken(s)
         IN  IF Len(s) = 1 /\ IsAlpha(s[1]) THEN RetLetter(s[1])
             ELSE IF /\ StartsWith(s, PROBLEM_) \/ StartsWith(s, ZADACHA_)
                     /\ Len(last) = 1 /\ IsAlpha(last[1])
                  THEN RetLetter(last[1])
             ELSE IF s # <<>> /\ IsAlpha(s[Len(s)]) THEN RetLetter(s[Len(s)])
             ELSE IF s = <<>> THEN Raise("IndexError")     \* problem_id[0] of ""
             ELSE IF IsAlpha(s[1]) THEN RetLetter(s[1])
             ELSE RetNone

(***************************************************************************)
(* The problem ids the normalizer is applied to: every text of at most     *)
(* MaxIdLen characters over IdAlphabet, the forms the tests and the        *)
(* docstrings name, and values that are not strings.                       *)
(***************************************************************************)
IdAlphabet == {"a", "B", "z", "1", ".", " ", "U+0430"}

RECURSIVE TextsUpTo(_, _)
TextsUpTo(A, n) ==
    IF n = 0 THEN {<<>>}
    ELSE LET shorter == TextsUpTo(A, n - 1)
         IN  shorter \cup {Append(s, c) : s \in shorter, c \in A}

IdSamples ==
    { <<"1","9","0","0","A">>,
      <<"A",".">>,
      <<"P","r","o","b","l","e","m"," ","B">>,
      <<"p","r","o","b","l","e","m"," ","1","c">>,
      <<"P","R","O","B","L","E","M"," ","A","B">>,
      <<"P","r","o","b","l","e","m"," ","1">>,
      <<"P","r","o","b","l","e","m","C">>,
      <<"U+0417","U+0430","U+0434","U+0430","U+0447","U+0430"," ","d">>,
      <<" ","c","1"," ">>,
      <<"1","2","3">>,
      <<" "," "," ">>,
      <<"\n","\t">> }

NormInputs ==
    {JStr(s) : s \in TextsUpTo(IdAlphabet, MaxIdLen) \cup IdSamples}
        \cup {JNull, JAbsent, JNum(<<"1">>), JNum(<<"0">>)}

(***************************************************************************)
(* The LLM's reply and json.loads.  A reply is a sequence of tokens        *)
(* [k, obj]: "prose" (text without a brace), "ws" (whitespace), "brace"    *)
(* (text that starts with '{' and is not JSON), "broken" (a JSON object    *)
(* cut short) and "json" (the serialisation of the object obj).  A decoded *)
(* object is the sequence of its [key, value] members, the keys distinct;  *)
(* a value is a JSON scalar or [t |-> "list", v |-> rows], and a row of    *)
(* a "problems" array is [isDict, contest_id, problem_id, analysis].       *)
(***************************************************************************)
Tok(k)       == [k |-> k, obj |-> <<>>]
JsonTok(obj) == [k |-> "json", obj |-> obj]
JList(rows)  == [t |-> "list", v |-> rows]

Row(c, p, a) == [isDict |-> TRUE, contest_id |-> c, problem_id |-> p, analysis |-> a]
NotADict     == [isDict |-> FALSE, contest_id |-> JAbsent, problem_id |-> JAbsent,
                 analysis |-> JAbsent]

\* str.find("{"): the first token that starts with a brace, 0 for -1
FindBrace(response) ==
    LET at == {i \in 1..Len(response) : response[i].k \in {"brace", "broken", "json"}}
    IN  IF at = {} THEN 0 ELSE Min(at)

\* response[json_start:].strip()
FromBrace(response) ==
    LET rest == SubSeq(response, FindBrace(response), Len(response))
        keep == {i \in 1..Len(rest) : rest[i].k # "ws"}
    IN  SubSeq(rest, 1, Max(keep))

\* json.loads decodes exactly one JSON document and nothing after it
JsonValid(content) == Len(content) = 1 /\ content[1].k = "json"

\* dict.get(key, default) of a member that may be absent
Get(j, default) == IF j.t = "absent" THEN default ELSE j

\* str(x) of a decoded JSON scalar
PyStr(j) ==
    CASE j.t = "null" -> <<"N","o","n","e">>
      [] OTHER        -> j.v

(***************************************************************************)
(* Errors.  [cls, contest, msg, raw, cause]: msg is the literal message,   *)
(* raw the LLM reply handed over as the message, cause the error of        *)
(* "raise ... from e".                                                     *)
(***************************************************************************)
NoCause == [cls |-> "none"]
PyErr(cls) == [cls |-> cls, contest |-> <<>>, msg |-> "", raw |-> <<>>, cause |-> NoCause]
LLMSegmentationError(contest_id, msg, raw, cause) ==
    [cls |-> "LLMSegmentationError", contest |-> contest_id, msg |-> msg, raw |-> raw,
     cause |-> cause]

Returned(d) == [kind |-> "ok", dict |-> d, err |-> NoCause]
Raised(e)   == [kind |-> "raise", dict |-> <<>>, err |-> e]

(***************************************************************************)
(* The result dict, in insertion order: entries [cid, pid, text], cid a    *)
(* JStr or JNull (Python's None).  Assigning to a key that is present      *)
(* replaces its value in place.                                            *)
(***************************************************************************)
DictSet(d, cid, pid, text) ==
    IF \E i \in 1..Len(d) : d[i].cid = cid /\ d[i].pid = pid
    THEN LET i == CHOOSE i \in 1..Len(d) : d[i].cid = cid /\ d[i].pid = pid
         IN  [d EXCEPT ![i].text = text]
    ELSE Append(d, [cid |-> cid, pid |-> pid, text |-> text])

Keys(d) == {<<d[i].cid, d[i].pid>> : i \in 1..Len(d)}

RECURSIVE ParseNewFrom(_, _, _)
ParseNewFrom(problems, i, clean_result) ==
    IF i > Len(problems) THEN Returned(clean_result)
    ELSE LET item == problems[i]
             contest_id == Strip(PyStr(Get(item.contest_id, JStr(<<>>))))
             problem_id == NormalizeProblemId(Get(item.problem_id, JStr(<<>>)))
             analysis == Get(item.analysis, JStr(<<>>))
         IN  IF ~item.isDict THEN ParseNewFrom(problems, i + 1, clean_result)
             ELSE IF problem_id.kind = "raise" THEN Raised(PyErr(problem_id.v))
             ELSE IF analysis.t # "str" THEN Raised(PyErr("AttributeError"))
             ELSE IF /\ contest_id # <<>>
                     /\ problem_id.kind = "letter"
                     /\ Strip(analysis.v) # <<>>
                  THEN ParseNewFrom(problems, i + 1,
                           DictSet(clean_result, JStr(contest_id), problem_id.v,
                                   Strip(analysis.v)))
             ELSE ParseNewFrom(problems, i + 1, clean_result)

\* EditorialContentParser._parse_new_format
ParseNewFormat(problems) == ParseNewFrom(problems, 1, <<>>)

RECURSIVE ParseOldFrom(_, _, _)
ParseOldFrom(result, i, clean_result) ==
    IF i > Len(result) THEN Returned(clean_result)
    ELSE LET key == result[i].key
             value == result[i].value
             problem_id == NormalizeProblemId(JStr(key))
         IN  IF ~(value.t = "str" /\ Strip(value.v) # <<>>)
             THEN ParseOldFrom(result, i + 1, clean_result)
             ELSE IF problem_id.kind = "raise" THEN Raised(PyErr(problem_id.v))
             ELSE IF problem_id.kind = "letter"
                  THEN ParseOldFrom(result, i + 1,
                           DictSet(clean_result, JNull, problem_id.v, Strip(value.v)))
             ELSE ParseOldFrom(result, i + 1, clean_result)

\* EditorialContentParser._parse_old_format
ParseOldFormat(result) == ParseOldFrom(result, 1, <<>>)

PROBLEMS_KEY == <<"p","r","o","b","l","e","m","s">>

\* "problems" in result and isinstance(result["problems"], list)
HasProblemsList(result) ==
    \E i \in 1..Len(result) : result[i].key = PROBLEMS_KEY /\ result[i].value.t = "list"

ProblemsOf(result) ==
    result[CHOOSE i \in 1..Len(result) : result[i].key = PROBLEMS_KEY].value.v

\* EditorialContentParser._parse_llm_response
ParseLLMResponse(response, primary_contest_id) ==
    IF FindBrace(response) = 0
    THEN Raised(LLMSegmentationError(primary_contest_id, "", response,
                                     PyErr("ValueError")))
    ELSE IF ~JsonValid(FromBrace(response))
    THEN Raised(LLMSegmentationError(primary_contest_id, "", response,
                                     PyErr("JSONDecodeError")))
    ELSE LET result == FromBrace(response)[1].obj
         IN  IF HasProblemsList(result)
             THEN ParseNewFormat(ProblemsOf(result))
             ELSE ParseOldFormat(result)

(***************************************************************************)
(* EditorialContentParser._clean_extracted_text: the regular expressions   *)
(* of re.sub, leftmost match first, the scan going on after each match.    *)
(***************************************************************************)
\* the end of the whitespace run that starts at i
RunEnd(s, i) == FirstNonSpace(s, i) - 1

RECURSIVE LastNewline(_, _)
\* the last index up to j that holds a newline (there is one at or before it)
LastNewline(s, j) == IF s[j] = "\n" THEN j ELSE LastNewline(s, j - 1)

Newlines(s, i, j) == Cardinality({k \in i..j : s[k] = "\n"})

\* the first index from i on whose character is in chars, Len(s) + 1 if none
NextIn(s, i, chars) ==
    LET at == {k \in i..Len(s) : s[k] \in chars}
    IN  IF at = {} THEN Len(s) + 1 ELSE Min(at)

RECURSIVE CollapseBlankLines(_, _)
\* re.sub(r"\n\s*\n\s*\n+", "\n\n", text), from index i on: the text up to the
\* next newline is kept, and a match can only start there
CollapseBlankLines(s, i) ==
    LET j == NextIn(s, i, {"\n"})
    IN  IF j > Len(s) THEN SubSeq(s, i, Len(s))
        ELSE IF Newlines(s, j, LastNewline(s, RunEnd(s, j))) >= 3
             THEN SubSeq(s, i, j - 1) \o <<"\n", "\n">>
                    \o CollapseBlankLines(s, LastNewline(s, RunEnd(s, j)) + 1)
             ELSE SubSeq(s, i, j) \o CollapseBlankLines(s, j + 1)

\* a literal matched at index i under re.IGNORECASE: the index after it, 0 if none
MatchLiteral(s, i, lit) ==
    IF /\ i + Len(lit) - 1 <= Len(s)
       /\ \A k \in 1..Len(lit) : LowerChar(s[i + k - 1]) = lit[k]
    THEN i + Len(lit)
    ELSE 0

RECURSIVE MatchPhrase(_, _, _, _)
\* the words of a pattern from word k on, matched at index i: the index after the
\* match, 0 if none.  After a word, sep is "plus" (\s+), "star" (\s*) or "none".
MatchPhrase(s, i, words, k) ==
    IF k > Len(words) THEN i
    ELSE LET j == MatchLiteral(s, i, words[k].lit)
             after == FirstNonSpace(s, j)
         IN  IF j = 0 THEN 0
             ELSE IF words[k].sep = "none" THEN MatchPhrase(s, j, words, k + 1)
             ELSE IF words[k].sep = "plus" /\ after = j THEN 0
             ELSE MatchPhrase(s, after, words, k + 1)

\* .*?(?=\n|\Z): the index of the next newline from i on, Len(s) + 1 if none
LineEnd(s, i) == NextIn(s, i, {"\n"})

\* the first index from i on where the first letter of the pattern stands
NextStart(s, i, words) ==
    LET at == {k \in i..Len(s) : LowerChar(s[k]) = words[1].lit[1]}
    IN  IF at = {} THEN Len(s) + 1 ELSE Min(at)

RECURSIVE RemovePattern(_, _, _)
\* re.sub(pattern, "", text, flags=re.IGNORECASE | re.MULTILINE), from index i on:
\* the text up to the next place the pattern can start at is kept
RemovePattern(s, i, words) ==
    LET j == NextStart(s, i, words)
        e == MatchPhrase(s, j, words, 1)
    IN  IF j > Len(s) THEN SubSeq(s, i, Len(s))
        ELSE IF e # 0 THEN SubSeq(s, i, j - 1) \o RemovePattern(s, LineEnd(s, e), words)
        ELSE SubSeq(s, i, j) \o RemovePattern(s, j + 1, words)

W(lit, sep) == [lit |-> lit, sep |-> sep]

remove_patterns ==
    << <<W(<<"m","a","t","e","r","i","a","l">>, "plus"), W(<<"y","o","u">>, "plus"),
         W(<<"s","h","o","u","l","d">>, "plus"), W(<<"k","n","o","w">>, "none")>>,
       <<W(<<"p","r","o","b","l","e","m">>, "plus"), W(<<"t","a","g","s">>, "star"),
         W(<<":">>, "none")>>,
       <<W(<<"d","o","w","n","l","o","a","d">>, "plus"), W(<<"a","s">>, "plus")>>,
       <<W(<<"s","u","b","m","i","t">>, "plus"), W(<<"a">>, "plus"),
         W(<<"t","i","c","k","e","t">>, "none")>>,
       <<W(<<"r","e","l","a","t","e","d">>, "plus"),
         W(<<"t","o","p","i","c","s">>, "none")>> >>

RECURSIVE RemovePatterns(_, _)
\* for pattern in remove_patterns: text = re.sub(pattern, "", text, ...)
RemovePatterns(s, k) ==
    IF k > Len(remove_patterns) THEN s
    ELSE RemovePatterns(RemovePattern(s, 1, remove_patterns[k]), k + 1)

RECURSIVE BlankRunEnd(_, _)
\* the index after the run of spaces and tabs that starts at i
BlankRunEnd(s, i) ==
    IF i > Len(s) \/ s[i] \notin {" ", "\t"} THEN i ELSE BlankRunEnd(s, i + 1)

RECURSIVE CollapseSpaces(_, _)
\* re.sub(r"[ \t]+", " ", text), from index i on
CollapseSpaces(s, i) ==
    LET j == NextIn(s, i, {" ", "\t"})
    IN  IF j > Len(s) THEN SubSeq(s, i, Len(s))
        ELSE SubSeq(s, i, j - 1) \o <<" ">> \o CollapseSpaces(s, BlankRunEnd(s, j))

RECURSIVE StripAfterNewline(_, _)
\* re.sub(r"\n\s+", "\n", text), from index i on
StripAfterNewline(s, i) ==
    LET j == NextIn(s, i, {"\n"})
    IN  IF j > Len(s) THEN SubSeq(s, i, Len(s))
        ELSE SubSeq(s, i, j) \o StripAfterNewline(s, FirstNonSpace(s, j + 1))

\* EditorialContentParser._clean_extracted_text
CleanExtractedText(text) ==
    Strip(StripAfterNewline(
            CollapseSpaces(RemovePatterns(CollapseBlankLines(text, 1), 1), 1), 1))

(***************************************************************************)
(* EditorialContentParser._extract_blog_content and                        *)
(* _fetch_editorial_content.  A page is what BeautifulSoup finds in it:    *)
(* containers, the get_text() of the element of each content selector that *)
(* matches, in the order of content_selectors, and the get_text() of the   *)
(* body when there is one.  An HTTP GET gives [ok, page].                  *)
(***************************************************************************)
MinContainerChars == 200
MinContentChars == 100

Page(containers, hasBody, body) ==
    [containers |-> containers, hasBody |-> hasBody, body |-> body]

RECURSIVE ExtractFrom(_, _)
ExtractFrom(page, k) ==
    IF k > Len(page.containers)
    THEN IF page.hasBody THEN CleanExtractedText(page.body) ELSE <<>>
    ELSE LET text == CleanExtractedText(page.containers[k])
         IN  IF Len(Strip(text)) > MinContainerChars THEN text
             ELSE ExtractFrom(page, k + 1)

\* EditorialContentParser._extract_blog_content
ExtractBlogContent(page) == ExtractFrom(page, 1)

Fetched(text) == [ok |-> TRUE, text |-> text, err |-> NoCause]
FetchFailed(cls, url) ==
    [ok |-> FALSE, text |-> <<>>,
     err |-> [cls |-> cls, url |-> url]]

\* EditorialContentParser._fetch_editorial_content
FetchEditorialContent(url, response) ==
    IF ~response.ok THEN FetchFailed("EditorialContentFetchError", url)
    ELSE LET text_content == ExtractBlogContent(response.page)
         IN  IF text_content = <<>> \/ Len(Strip(text_content)) < MinContentChars
             THEN FetchFailed("EditorialContentParseError", url)
             ELSE Fetched(text_content)

(***************************************************************************)
(* EditorialContentParser._combine_editorial_content.                      *)
(***************************************************************************)
DigitChars == <<"0","1","2","3","4","5","6","7","8","9">>

RECURSIVE Decimal(_)
\* str(n) of a natural number
Decimal(n) ==
    IF n < 10 THEN <<DigitChars[n + 1]>>
    ELSE Decimal(n \div 10) \o <<DigitChars[(n % 10) + 1]>>

\* SourceHeader with enumerate(content_list) for enumerate(content_list, 1)
SourceHeaderFromZero(n) ==
    <<"=","=","="," ","E","D","I","T","O","R","I","A","L"," ","S","O","U","R","C","E"," ">>
        \o Decimal(n - 1) \o <<" ","=","=","=">> \o <<"\n","\n">>

SourceHeader(n) ==
    <<"=","=","="," ","E","D","I","T","O","R","I","A","L"," ","S","O","U","R","C","E"," ">>
        \o Decimal(n) \o <<" ","=","=","=">> \o <<"\n","\n">>

RECURSIVE JoinParts(_, _)
JoinParts(content_list, n) ==
    IF n > Len(content_list) THEN <<>>
    ELSE (IF n > 1 THEN <<"\n","\n">> ELSE <<>>)
            \o SourceHeader(n) \o content_list[n] \o JoinParts(content_list, n + 1)

CombineEditorialContent(content_list) ==
    IF Len(content_list) = 1 THEN content_list[1] ELSE JoinParts(content_list, 1)

(***************************************************************************)
(* EditorialContentParser._segment_by_problems and                         *)
(* _ask_llm_for_segmentation.                                              *)
(***************************************************************************)
max_chars == 40000
MinSegmentChars == 50

TRUNCATION_MARKER ==
    <<"\n","\n","[","C","O","N","T","E","N","T"," ","T","R","U","N","C","A","T","E","D",
      " ","D","U","E"," ","T","O"," ","L","E","N","G","T","H","]">>

UNKNOWN_PROBLEMS ==
    <<"U","n","k","n","o","w","n"," ","(","p","a","r","s","e"," ","a","l","l"," ",
      "p","r","o","b","l","e","m","s"," ","f","o","u","n","d",")">>

\* ContentTooShort without the strip(): the untrimmed length is compared
ContentTooShortUntrimmed(text) == text = <<>> \/ Len(text) < MinSegmentChars

\* not full_text or len(full_text.strip()) < 50
ContentTooShort(text) == text = <<>> \/ Len(Strip(text)) < MinSegmentChars

\* TruncateForPrompt with >= for >: a text of exactly max_chars characters is cut
TruncateFrom(text) ==
    IF Len(text) >= max_chars
    THEN SubSeq(text, 1, max_chars) \o TRUNCATION_MARKER
    ELSE text

\* the editorial text of the prompt: cut to max_chars characters plus the marker
TruncateForPrompt(text) ==
    IF Len(text) > max_chars
    THEN SubSeq(text, 1, max_chars) \o TRUNCATION_MARKER
    ELSE text

RECURSIVE JoinExpected(_, _)
JoinExpected(expected, i) ==
    IF i > Len(expected) THEN <<>>
    ELSE (IF i > 1 THEN <<",", " ">> ELSE <<>>)
            \o expected[i].cid \o <<"/">> \o <<expected[i].pid>>
            \o JoinExpected(expected, i + 1)

\* EditorialContentParser._format_expected_problems (None and [] alike)
FormatExpectedProblems(expected) ==
    IF expected = <<>> THEN UNKNOWN_PROBLEMS ELSE JoinExpected(expected, 1)

\* the user prompt of _ask_llm_for_segmentation: its three variable parts
UserPrompt(text, cid, expected) ==
    [contest_id |-> cid,
     expected |-> FormatExpectedProblems(expected),
     editorial_text |-> TruncateForPrompt(text)]

Completion(exc, text) == [exc |-> exc, text |-> text]
NoReply == Completion("none", <<>>)

\* a segmentation that returns whatever map the parse gives
SegmentOutcomeAny(reply, cid) ==
    IF reply.exc # "" THEN Raised(LLMSegmentationError(cid, "", <<>>, PyErr(reply.exc)))
    ELSE LET result == ParseLLMResponse(reply.text, cid)
         IN  IF result.kind = "raise"
             THEN Raised(LLMSegmentationError(cid, "", <<>>, result.err))
             ELSE result

\* lines 246-259 of _segment_by_problems, from the completion on: every error of
\* the call, of the parse and of the emptiness check is raised again as
\* LLMSegmentationError(contest_id) from e
SegmentOutcome(reply, cid) ==
    IF reply.exc # "" THEN Raised(LLMSegmentationError(cid, "", <<>>, PyErr(reply.exc)))
    ELSE LET result == ParseLLMResponse(reply.text, cid)
         IN  IF result.kind = "raise"
             THEN Raised(LLMSegmentationError(cid, "", <<>>, result.err))
             ELSE IF result.dict = <<>>
             THEN Raised(LLMSegmentationError(cid, "", <<>>,
                     LLMSegmentationError(cid, "Invalid LLM response format", <<>>,
                                          NoCause)))
             ELSE result

(***************************************************************************)
(* The replies _parse_llm_response is applied to.                          *)
(***************************************************************************)
C1900 == <<"1","9","0","0">>
C1901 == <<"1","9","0","1">>

RowContestIds == {JStr(C1900), JStr(<<" ">> \o C1901), JNull}
RowProblemIds == {JStr(<<"A">>), JStr(<<"b",".">>), JStr(<<" ">>)}
RowAnalyses   == {JStr(<<" ","x","\n">>), JStr(<<" ">>), JNull}

RowSamples ==
    {Row(c, p, a) : c \in RowContestIds, p \in RowProblemIds, a \in RowAnalyses}
        \cup { NotADict,
               Row(JAbsent, JStr(<<"A">>), JStr(<<"y">>)),
               Row(JStr(<<>>), JStr(<<"A">>), JStr(<<"y">>)),
               Row(JStr(C1900), JStr(<<"1">>), JStr(<<"y">>)),
               Row(JStr(C1900), JStr(<<>>), JStr(<<"y">>)),
               Row(JStr(C1900), JStr(<<"A">>), JStr(<<>>)),
               Row(JStr(C1900), JAbsent, JStr(<<"y">>)),
               Row(JStr(C1900), JStr(<<"A">>), JAbsent),
               Row(JNum(C1900), JNum(<<"1">>), JNum(<<"7">>)),
               Row(JNum(C1900), JStr(<<"1","9","0","0","B">>), JStr(<<"y">>)) }

RECURSIVE SeqsUpTo(_, _)
SeqsUpTo(S, n) ==
    IF n = 0 THEN {<<>>}
    ELSE LET shorter == SeqsUpTo(S, n - 1)
         IN  shorter \cup {Append(q, x) : q \in shorter, x \in S}

NewObjects ==
    {<<[key |-> PROBLEMS_KEY, value |-> JList(rows)]>> : rows \in SeqsUpTo(RowSamples, MaxRows)}

LegacyKeys ==
    { <<"A">>, <<"a">>, <<"P","r","o","b","l","e","m"," ","B">>, <<"C",".">>,
      <<"1">>, <<" ">>, PROBLEMS_KEY }
LegacyValues ==
    {JStr(<<"s","o","l">>), JStr(<<" ","t"," ">>), JStr(<<" ">>), JStr(<<>>), JNull,
     JNum(<<"7">>)}

LegacyObjects ==
    {obj \in SeqsUpTo({[key |-> k, value |-> v] : k \in LegacyKeys, v \in LegacyValues},
                      MaxPairs) :
        \A i, j \in 1..Len(obj) : obj[i].key = obj[j].key => i = j}

ParseResponses ==
    {<<JsonTok(obj)>> : obj \in NewObjects \cup LegacyObjects}
        \cup { <<>>, <<Tok("prose")>>, <<Tok("broken")>>, <<Tok("brace"), JsonTok(<<>>)>>,
               <<Tok("prose"), JsonTok(<<>>), Tok("ws")>>,
               <<JsonTok(<<>>), Tok("prose")>> }

NormIdle == nIn = JAbsent /\ nOut = NoCall
ParseIdle == pResp = <<>> /\ pOut = NoCall
SegIdle ==
    /\ pc = "idle" /\ requested = C1900 /\ llm_client = FALSE /\ full_text = <<>>
    /\ expected_problems = <<>> /\ llmRequests = <<>> /\ llmReply = NoReply
    /\ segOut = NoCall
DiscIdle ==
    /\ soup = <<>> /\ llm_editorial_finder = FALSE /\ finder_llm = FALSE
    /\ finderRequests = <<>> /\ finderReply = NoReply
    /\ findOut = NoCall /\ discOut = NoCall /\ links = NoCall

RUNS_PER_TEST == 1
PARALLEL_REQUESTS == 5

AverageIdle ==
    /\ runs_per_test = RUNS_PER_TEST /\ benchPage = <<>> /\ html_cache = {}
    /\ netLog = EmptyBag /\ runResults = <<>> /\ averaged = NoCall

ModelIdle ==
    /\ test_cases = <<>> /\ parallel_requests = PARALLEL_REQUESTS /\ batch_i = 0
    /\ taskRuns = <<>> /\ taskOut = <<>> /\ running = <<>> /\ results = <<>>
    /\ benchOut = NoCall /\ metrics = NoCall

BenchIdle ==
    /\ tcExpected = JNull /\ tcFound = JList(<<>>) /\ isCorrectOut = NoCall
    /\ AverageIdle /\ ModelIdle

RatingIdle ==
    /\ api_problem_data = <<>> /\ problem_map = <<>> /\ problemPage = FALSE
    /\ problemOut = NoCall

CleanIdle == cleanIn = <<>> /\ cleanOut = NoCall /\ cleanAgain = NoCall

OrchIdle ==
    /\ cache_client = FALSE /\ use_cache = FALSE /\ cacheStore = {}
    /\ orchRequests = <<>>

OtherIdle == CleanIdle /\ OrchIdle

RestIdle == RatingIdle /\ OtherIdle

MoreIdle == DiscIdle /\ BenchIdle /\ RestIdle
NoWorld == [standings |-> FALSE, type |-> "none", problemset |-> FALSE, page |-> FALSE,
            has_editorial_urls |-> FALSE, editorial_urls |-> <<>>]

PipeIdle ==
    /\ editorial_parser = FALSE
    /\ editorial_urls = [given |-> FALSE, urls |-> <<>>]
    /\ urls = <<>> /\ idx = 0 /\ all_content = <<>> /\ failed_urls = <<>>
    /\ httpLog = <<>> /\ editorial_data = NoCall /\ contestWorld = NoWorld
    /\ in_flight = <<>>

(***************************************************************************)
(* SpecNorm: _normalize_problem_id applied to one problem id.              *)
(***************************************************************************)
NormInit ==
    /\ nIn \in NormInputs
    /\ nOut = NoCall
    /\ ParseIdle /\ SegIdle /\ PipeIdle /\ MoreIdle

NormCall ==
    /\ nOut = NoCall
    /\ nOut' = NormalizeProblemId(nIn)
    /\ UNCHANGED <<nIn, parseVars, segVars, pipeVars, moreVars>>

NormNext == NormCall

SpecNorm == NormInit /\ [][NormNext]_vars

(***************************************************************************)
(* SpecParse: _parse_llm_response applied to one reply, for contest 1900.  *)
(***************************************************************************)
ParseInit ==
    /\ pResp \in ParseResponses
    /\ pOut = NoCall
    /\ NormIdle /\ SegIdle /\ PipeIdle /\ MoreIdle

ParseCall ==
    /\ pOut = NoCall
    /\ pOut' = ParseLLMResponse(pResp, C1900)
    /\ UNCHANGED <<pResp, normVars, segVars, pipeVars, moreVars>>

ParseNext == ParseCall

SpecParse == ParseInit /\ [][ParseNext]_vars

(***************************************************************************)
(* SpecSegment: _segment_by_problems applied to one combined text.         *)
(***************************************************************************)
\* a text of n characters whose content depends on the position
Body(n) == [i \in 1..n |-> IF i % 3 = 0 THEN "b" ELSE "a"]
Pad(n)  == [i \in 1..n |-> IF i % 2 = 0 THEN "\n" ELSE " "]

SegTexts ==
    {Pad(l) \o Body(n) \o Pad(r) :
        l \in 0..MaxPad, r \in 0..MaxPad,
        n \in (MinSegmentChars - Slack)..(MinSegmentChars + Slack)}
    \cup {Body(n) : n \in (max_chars - Slack)..(max_chars + Slack)}
    \cup {Body(45000), Pad(MaxPad + 1), <<>>}

ValidNew ==
    <<[key |-> PROBLEMS_KEY,
       value |-> JList(<<Row(JStr(C1900), JStr(<<"A">>), JStr(<<"x">>)),
                         Row(JStr(C1901), JStr(<<"A">>), JStr(<<"y">>)),
                         Row(JStr(C1900), JStr(<<"B">>), JStr(<<"z">>))>>)]>>
OnlyOther ==
    <<[key |-> PROBLEMS_KEY,
       value |-> JList(<<Row(JStr(C1901), JStr(<<"A">>), JStr(<<"y">>))>>)]>>
ValidLegacy ==
    <<[key |-> <<"A">>, value |-> JStr(<<"s","o","l">>)],
      [key |-> <<"b">>, value |-> JStr(<<"t">>)]>>
EmptyNew == <<[key |-> PROBLEMS_KEY, value |-> JList(<<>>)]>>
BlankIdNew ==
    <<[key |-> PROBLEMS_KEY,
       value |-> JList(<<Row(JStr(C1900), JStr(<<"A">>), JStr(<<"x">>)),
                         Row(JStr(C1900), JStr(<<" ">>), JStr(<<"y">>))>>)]>>

NullAnalysisNew ==
    <<[key |-> PROBLEMS_KEY,
       value |-> JList(<<Row(JStr(C1900), JStr(<<"A">>), JNull)>>)]>>
InvalidRowsNew ==
    <<[key |-> PROBLEMS_KEY,
       value |-> JList(<<Row(JStr(C1900), JStr(<<"1">>), JStr(<<"y">>)),
                         Row(JStr(C1900), JStr(<<"A">>), JStr(<<" ">>)),
                         NotADict>>)]>>
BlankLegacy ==
    <<[key |-> <<"A">>, value |-> JStr(<<" ">>)],
      [key |-> <<"1">>, value |-> JStr(<<"s","o","l">>)]>>

SegReplies ==
    {Completion("", text) : text \in
        { <<JsonTok(ValidNew)>>, <<JsonTok(OnlyOther)>>, <<JsonTok(ValidLegacy)>>,
          <<Tok("prose"), JsonTok(ValidNew), Tok("ws")>>,
          <<JsonTok(ValidNew), Tok("prose")>>,
          <<Tok("brace"), JsonTok(ValidNew)>>,
          <<Tok("prose")>>, <<>>, <<Tok("prose"), Tok("broken")>>,
          <<JsonTok(EmptyNew)>>, <<JsonTok(<<>>)>>, <<JsonTok(BlankIdNew)>>,
          <<JsonTok(NullAnalysisNew)>>, <<JsonTok(InvalidRowsNew)>>,
          <<JsonTok(BlankLegacy)>> }}
    \cup {Completion("LLMError", <<>>), Completion("TimeoutError", <<>>)}

ExpectedChoices ==
    { <<>>, <<[cid |-> C1900, pid |-> "A"], [cid |-> C1900, pid |-> "B"]>> }

SegInit ==
    /\ pc = "segment"
    /\ requested = C1900
    /\ llm_client \in BOOLEAN
    /\ full_text \in SegTexts
    /\ expected_problems \in ExpectedChoices
    /\ llmRequests = <<>>
    /\ llmReply = NoReply
    /\ segOut = NoCall
    /\ NormIdle /\ ParseIdle /\ PipeIdle /\ MoreIdle

\* _segment_by_problems up to the completion call (lines 240-247, 275-336)
SegmentStart ==
    /\ pc = "segment"
    /\ IF ~llm_client
       THEN /\ segOut' = Raised(LLMSegmentationError(requested, "No LLM client available",
                                                     <<>>, NoCause))
            /\ pc' = "segmented"
            /\ UNCHANGED llmRequests
       ELSE IF ContentTooShort(full_text)
       THEN /\ segOut' = Raised(LLMSegmentationError(requested,
                                    "Content too short for segmentation", <<>>, NoCause))
            /\ pc' = "segmented"
            /\ UNCHANGED llmRequests
       ELSE /\ llmRequests' = Append(llmRequests,
                                     UserPrompt(full_text, requested, expected_problems))
            /\ pc' = "awaiting_llm"
            /\ UNCHANGED segOut
    /\ UNCHANGED <<requested, llm_client, full_text, expected_problems, llmReply>>
    /\ UNCHANGED <<normVars, parseVars, pipeVars, moreVars>>

\* the completion returns or raises, and _segment_by_problems ends (lines 249-259,
\* 339)
SegmentFinish ==
    /\ pc = "awaiting_llm"
    /\ \E reply \in SegReplies :
          /\ llmReply' = reply
          /\ segOut' = SegmentOutcome(reply, requested)
    /\ pc' = "segmented"
    /\ UNCHANGED <<requested, llm_client, full_text, expected_problems, llmRequests>>
    /\ UNCHANGED <<normVars, parseVars, pipeVars, moreVars>>

SegNext == SegmentStart \/ SegmentFinish

SpecSegment == SegInit /\ [][SegNext]_vars

(***************************************************************************)
(* Spec: ContestService.get_editorial_content for contest 1900, through    *)
(* EditorialContentParser.parse_editorial_content.                         *)
(***************************************************************************)
U1 == <<"u","1">>
U2 == <<"u","2">>
U3 == <<"u","3">>
UrlPool == <<U1, U2, U3>>

\* the URL lists a caller passes or a contest page names
UrlLists == {SubSeq(UrlPool, 1, n) : n \in 0..MaxUrls}

Nav == <<"C","o","d","e","f","o","r","c","e","s","\n">>
PdfLine == <<"D","o","w","n","l","o","a","d"," ","a","s"," ","P","D","F","\n">>
TagsLine == <<"\n","P","r","o","b","l","e","m"," ","t","a","g","s",":"," ","d","p">>

\* pages around the two length checks of the fetch
Pages ==
    { Page(<<Body(MinContainerChars + 1)>>, TRUE, Nav \o Body(MinContainerChars + 1)),
      Page(<<Body(MinContainerChars)>>, TRUE, Nav \o Body(MinContainerChars)),
      Page(<<>>, TRUE, Body(MinContentChars)),
      Page(<<>>, TRUE, Pad(2) \o Body(MinContentChars - 1) \o Pad(2)),
      Page(<<Body(MinContentChars), PdfLine \o Body(MinContainerChars + 5) \o TagsLine>>,
           TRUE, Nav),
      Page(<<>>, FALSE, <<>>) }

HttpResponses ==
    {[ok |-> TRUE, page |-> p] : p \in Pages} \cup {[ok |-> FALSE, page |-> Page(<<>>, FALSE, <<>>)]}

\* whether the page data has the attribute editorial_urls that get_contest reads
\* (line 77): the ContestPageData of ContestPageParser.parse_contest_page has the
\* field editorial_url only
HasEditorialUrls(world) == world.has_editorial_urls

\* what the API client and the page parser give get_contest: page is whether
\* parse_contest_page returns; has_editorial_urls is FALSE for the ContestPageData
\* of the repository's ContestPageParser, whose editorial_urls here is what its
\* editorial_url holds, and TRUE for a page parser whose data has editorial_urls
ContestWorlds ==
    {[standings |-> TRUE, type |-> "CF", problemset |-> TRUE, page |-> TRUE,
      has_editorial_urls |-> h, editorial_urls |-> u] : h \in BOOLEAN, u \in UrlLists}
    \cup {[standings |-> FALSE, type |-> "CF", problemset |-> TRUE, page |-> TRUE,
           has_editorial_urls |-> TRUE, editorial_urls |-> <<>>],
          [standings |-> TRUE, type |-> "GYM", problemset |-> TRUE, page |-> TRUE,
           has_editorial_urls |-> TRUE, editorial_urls |-> <<U1>>],
          [standings |-> TRUE, type |-> "CF", problemset |-> FALSE, page |-> TRUE,
           has_editorial_urls |-> TRUE, editorial_urls |-> <<U1>>],
          [standings |-> TRUE, type |-> "CF", problemset |-> TRUE, page |-> FALSE,
           has_editorial_urls |-> FALSE, editorial_urls |-> <<>>]}

\* ContestService.get_contest, as far as the editorial URLs of the contest go
GetContest(world) ==
    IF ~world.standings THEN [exc |-> "Exception", editorials |-> <<>>]
    ELSE IF world.type = "GYM" THEN [exc |-> "GymContestError", editorials |-> <<>>]
    ELSE IF ~world.problemset THEN [exc |-> "Exception", editorials |-> <<>>]
    ELSE IF world.page /\ ~HasEditorialUrls(world)
    THEN [exc |-> "AttributeError", editorials |-> <<>>]
    ELSE [exc |-> "", editorials |-> IF world.page THEN world.editorial_urls ELSE <<>>]

\* an outcome of get_editorial_content
Failure(cls, cid, detail, cause) ==
    [kind |-> "raise", cls |-> cls, contest |-> cid, detail |-> detail, cause |-> cause,
     editorials |-> <<>>]
ContestEditorial(cid, editorials) ==
    [kind |-> "ok", cls |-> "", contest |-> cid, detail |-> <<>>, cause |-> NoCause,
     editorials |-> editorials]

\* Editorial(contest_id=cid, problem_id=pid, analysis_text=text) for every item
EditorialsOf(problem_solutions) ==
    [i \in 1..Len(problem_solutions) |->
        [contest_id |-> problem_solutions[i].cid,
         problem_id |-> problem_solutions[i].pid,
         analysis_text |-> problem_solutions[i].text]]

\* ContinueAfterFailure with break for continue: the loop ends at the first failure
StopAfterFailure(i, n) == n + 1

\* except ...: failed_urls.append(url); continue
ContinueAfterFailure(i, n) == i + 1

PipeRest == <<normVars, parseVars, llm_client, expected_problems, llmRequests, llmReply,
              segOut, requested, editorial_parser, editorial_urls, moreVars>>

Init ==
    /\ pc = "start"
    /\ requested = C1900
    /\ llm_client \in BOOLEAN
    /\ editorial_parser \in BOOLEAN
    /\ editorial_urls \in {[given |-> TRUE, urls |-> u] : u \in UrlLists}
                            \cup {[given |-> FALSE, urls |-> <<>>]}
    /\ full_text = <<>> /\ expected_problems = <<>>
    /\ llmRequests = <<>> /\ llmReply = NoReply /\ segOut = NoCall
    /\ urls = <<>> /\ idx = 0 /\ all_content = <<>> /\ failed_urls = <<>>
    /\ httpLog = <<>> /\ editorial_data = NoCall /\ contestWorld = NoWorld
    /\ in_flight = <<>>
    /\ NormIdle /\ ParseIdle /\ MoreIdle

\* get_editorial_content up to its first await (lines 206-221), and the entry of
\* parse_editorial_content (lines 61-66)
GetEditorialContent ==
    /\ pc = "start"
    /\ IF ~editorial_parser
       THEN /\ editorial_data' = Failure("EditorialNotFoundError", requested, <<>>, NoCause)
            /\ pc' = "done"
            /\ UNCHANGED urls
       ELSE IF ~editorial_urls.given
       THEN /\ pc' = "get_contest"
            /\ UNCHANGED <<editorial_data, urls>>
       ELSE IF editorial_urls.urls = <<>>
       THEN /\ editorial_data' = Failure("EditorialNotFoundError", requested, <<>>, NoCause)
            /\ pc' = "done"
            /\ UNCHANGED urls
       ELSE /\ urls' = editorial_urls.urls
            /\ pc' = "fetching"
            /\ UNCHANGED editorial_data
    /\ idx' = 1
    /\ UNCHANGED <<all_content, failed_urls, httpLog, full_text, contestWorld, in_flight,
                   PipeRest>>

\* get_contest returns or raises (lines 212-221)
GetContestReturns ==
    /\ pc = "get_contest"
    /\ \E world \in ContestWorlds :
          LET contest == GetContest(world)
          IN  /\ contestWorld' = world
              /\ IF contest.exc # ""
                 THEN /\ editorial_data' = Failure(contest.exc, requested, <<>>, NoCause)
                      /\ pc' = "done"
                      /\ UNCHANGED urls
                 ELSE IF contest.editorials = <<>>
                 THEN /\ editorial_data' = Failure("EditorialNotFoundError", requested, <<>>,
                                                   NoCause)
                      /\ pc' = "done"
                      /\ UNCHANGED urls
                 ELSE /\ urls' = contest.editorials
                      /\ pc' = "fetching"
                      /\ UNCHANGED editorial_data
    /\ UNCHANGED <<idx, all_content, failed_urls, httpLog, full_text, in_flight, PipeRest>>

\* for url in editorial_urls: content = await self._fetch_editorial_content(url):
\* the loop awaits a fetch before it starts the next one (lines 68-70)
StartAwaited(pending) == pending = <<>>

\* a pass of the loop over the URLs begins: the fetch of the next URL is started
\* (lines 68-70)
FetchStart ==
    /\ pc = "fetching"
    /\ idx + Len(in_flight) <= Len(urls)
    /\ StartAwaited(in_flight)
    /\ in_flight' = Append(in_flight, [url |-> urls[idx + Len(in_flight)],
                                       after |-> Len(httpLog)])
    /\ UNCHANGED <<pc, urls, idx, all_content, failed_urls, httpLog, editorial_data,
                   full_text, contestWorld, PipeRest>>

\* the pass of the loop over the URLs ends: the awaited fetch returns or raises
\* (lines 70-76)
FetchNext ==
    /\ pc = "fetching"
    /\ idx <= Len(urls)
    /\ in_flight # <<>>
    /\ in_flight' = Tail(in_flight)
    /\ \E response \in HttpResponses :
          LET url == urls[idx]
              content == FetchEditorialContent(url, response)
          IN  /\ httpLog' = Append(httpLog, [url |-> url, response |-> response,
                                           content |-> content,
                                           after |-> in_flight[1].after])
              /\ IF content.ok
                 THEN /\ all_content' = Append(all_content, content.text)
                      /\ idx' = idx + 1
                      /\ UNCHANGED failed_urls
                 ELSE /\ failed_urls' = Append(failed_urls, url)
                      /\ idx' = ContinueAfterFailure(idx, Len(urls))
                      /\ UNCHANGED all_content
    /\ UNCHANGED <<pc, urls, editorial_data, full_text, contestWorld, PipeRest>>

\* after the loop (lines 78-84): nothing fetched is an error, else the texts are
\* combined
FetchDone ==
    /\ pc = "fetching"
    /\ idx > Len(urls)
    /\ IF all_content = <<>>
       THEN /\ editorial_data' = Failure("EditorialContentFetchError", requested, failed_urls,
                                 NoCause)
            /\ pc' = "done"
            /\ UNCHANGED full_text
       ELSE /\ full_text' = CombineEditorialContent(all_content)
            /\ pc' = "segment"
            /\ UNCHANGED editorial_data
    /\ UNCHANGED <<urls, idx, all_content, failed_urls, httpLog, contestWorld, in_flight,
                   PipeRest>>

\* the rest of parse_editorial_content (lines 87-97) and of get_editorial_content
\* (lines 224-228): an error of the segmentation goes through, a map becomes the
\* editorials
ReturnEditorial ==
    /\ pc = "segmented"
    /\ editorial_data' = IF segOut.kind = "raise"
                 THEN Failure(segOut.err.cls, segOut.err.contest, <<>>, segOut.err.cause)
                 ELSE ContestEditorial(requested, EditorialsOf(segOut.dict))
    /\ pc' = "done"
    /\ UNCHANGED <<urls, idx, all_content, failed_urls, httpLog, full_text, contestWorld,
                   in_flight,
                   PipeRest>>

Next ==
    \/ GetEditorialContent
    \/ GetContestReturns
    \/ FetchStart
    \/ FetchNext
    \/ FetchDone
    \/ SegmentStart
    \/ SegmentFinish
    \/ ReturnEditorial

Spec == Init /\ [][Next]_vars

(***************************************************************************)
(* LLMEditorialFinder and ContestPageParser._extract_editorial_url.  The   *)
(* contest page is what BeautifulSoup finds in it: its anchors with an     *)
(* href, in document order, each [href, text, area], text the stripped     *)
(* get_text() and area the search area the anchor lies in ("sidebar",      *)
(* "roundbox", "datatable" or "").  Python values are JSON values: None is *)
(* JNull, a list is JList.                                                 *)
(***************************************************************************)
\* the characters of a string
Chars(str) == [i \in 1..Len(str) |-> SubSeq(str, i, i)]

\* word in text
Contains(text, word) ==
    \E i \in 1..(Len(text) - Len(word) + 1) : SubSeq(text, i, i + Len(word) - 1) = word

\* str.lower()
Lower(text) == [i \in 1..Len(text) |-> LowerChar(text[i])]

ORIGIN == Chars("https://codeforces.com")
BLOG_ENTRY == Chars("/blog/entry/")
MaxLinks == 20

skip_patterns ==
    << Chars("/profile/"), Chars("/problemset/"), Chars("/contest/"), Chars("/gym/"),
       Chars("/standings/"), Chars("/submission/"), Chars("/register"),
       Chars("/settings"), Chars("javascript:"), Chars("#") >>

\* LLMEditorialFinder._is_potentially_editorial_link
IsPotentiallyEditorialLink(href) ==
    \/ Contains(href, BLOG_ENTRY)
    \/ \A k \in 1..Len(skip_patterns) : ~Contains(href, skip_patterns[k])

\* if href.startswith("/"): href = f"https://codeforces.com{href}"
Absolute(href) == IF StartsWith(href, <<"/">>) THEN ORIGIN \o href ELSE href

Anchor(href, text, area) == [href |-> href, text |-> text, area |-> area]
Link(url, text) == [url |-> url, text |-> text]

\* area.find_all("a", href=True) of the search area
InArea(page, area) == SelectSeq(page, LAMBDA a : a.area = area)

\* the anchors in the order the loops over search_areas visit them
SearchAreas(page) ==
    InArea(page, "sidebar") \o InArea(page, "roundbox") \o InArea(page, "datatable")
        \o page

RECURSIVE ExtractLinksFrom(_, _, _, _)
\* the loop body of _extract_links from anchor i of the scan on
ExtractLinksFrom(scan, i, found, seen_urls) ==
    IF i > Len(scan) THEN found
    ELSE LET href == scan[i].href
             text == scan[i].text
         IN  IF ~IsPotentiallyEditorialLink(href)
             THEN ExtractLinksFrom(scan, i + 1, found, seen_urls)
             ELSE IF href \in seen_urls
             THEN ExtractLinksFrom(scan, i + 1, found, seen_urls)
             ELSE IF text = <<>>
             THEN ExtractLinksFrom(scan, i + 1, found, seen_urls \cup {href})
             ELSE ExtractLinksFrom(scan, i + 1,
                                   Append(found, Link(Absolute(href), text)),
                                   seen_urls \cup {href})

\* LLMEditorialFinder._extract_links
ExtractLinks(page) ==
    LET found == ExtractLinksFrom(SearchAreas(page), 1, <<>>, {})
    IN  SubSeq(found, 1, IF Len(found) < MaxLinks THEN Len(found) ELSE MaxLinks)

URL_KEY == Chars("url")

\* json.loads(response): the document with whitespace around it, and nothing else
JsonLoads(response) ==
    LET doc == SelectSeq(response, LAMBDA tok : tok.k # "ws")
    IN  IF Len(doc) = 1 /\ doc[1].k \in {"json", "value"} THEN doc[1] ELSE Tok("none")

\* result.get("url") of a decoded object
GetMember(obj, key) ==
    IF \E i \in 1..Len(obj) : obj[i].key = key
    THEN obj[CHOOSE i \in 1..Len(obj) : obj[i].key = key].value
    ELSE JNull

\* lines 196-222 of _ask_llm_for_editorial, from the completion on
AskOutcome(reply) ==
    IF reply.exc # "" THEN JNull
    ELSE LET result == JsonLoads(reply.text)
         IN  IF result.k # "json" THEN JNull
             ELSE LET editorial_url == GetMember(result.obj, URL_KEY)
                  IN  IF Truthy(editorial_url) THEN JList(<<editorial_url>>)
                      ELSE JList(<<>>)

keywords ==
    << Chars("tutorial"), Chars("editorial"),
       <<"U+0440","U+0430","U+0437","U+0431","U+043E","U+0440">> >>

\* the first index that holds TRUE, 0 if none
FirstWhere(flags) ==
    LET at == {i \in 1..Len(flags) : flags[i]}
    IN  IF at = {} THEN 0 ELSE Min(at)

\* ContestPageParser._extract_editorial_url_regex
ExtractEditorialUrlRegex(page) ==
    LET byText == FirstWhere([i \in 1..Len(page) |->
                      \E k \in 1..Len(keywords) :
                         Contains(Lower(page[i].text), keywords[k])])
        sidebar == InArea(page, "sidebar")
        byHref == FirstWhere([i \in 1..Len(sidebar) |->
                      Contains(sidebar[i].href, BLOG_ENTRY)])
    IN  IF byText # 0 THEN JStr(Absolute(page[byText].href))
        ELSE IF byHref # 0 THEN JStr(Absolute(sidebar[byHref].href))
        ELSE JNull

\* DiscoveryResult without the fallback: what the finder gave is returned
DiscoveryResultNoFallback(llm_url, page) == llm_url

\* if llm_url: return llm_url; return self._extract_editorial_url_regex(soup, ...)
DiscoveryResult(llm_url, page) ==
    IF Truthy(llm_url) THEN llm_url ELSE ExtractEditorialUrlRegex(page)

(***************************************************************************)
(* SpecDiscover: ContestPageParser._extract_editorial_url on one page.     *)
(***************************************************************************)
ENTRY1 == Chars("/blog/entry/1")
RAZBOR_UPPER == <<"U+0420","U+0410","U+0417","U+0411","U+041E","U+0420">>

AnchorSamples ==
    { Anchor(ENTRY1, Chars("Tutorial"), "sidebar"),
      Anchor(ORIGIN \o ENTRY1, Chars("Contest EDITORIAL"), ""),
      Anchor(Chars("/blog/entry/2"), Chars("Announcement"), "roundbox"),
      Anchor(Chars("/contest/1900"), Chars("Problems"), ""),
      Anchor(Chars("/blog/entry/3"), <<>>, "datatable"),
      Anchor(Chars("/help"), RAZBOR_UPPER, "") }

\* a page of n different blog links
ManyLinks(n) ==
    [i \in 1..n |-> Anchor(BLOG_ENTRY \o Decimal(i), Chars("Post"), "")]

Soups ==
    SeqsUpTo(AnchorSamples, MaxAnchors)
        \cup {ManyLinks(n) : n \in (MaxLinks - Slack)..(MaxLinks + Slack)}

UrlObject(value) == <<[key |-> URL_KEY, value |-> value]>>
PICKED == JStr(ORIGIN \o ENTRY1)

FinderReplies ==
    {Completion("", text) : text \in
        { <<JsonTok(UrlObject(PICKED))>>,
          <<Tok("prose"), JsonTok(UrlObject(PICKED))>>,
          <<Tok("ws"), JsonTok(UrlObject(PICKED)), Tok("ws")>>,
          <<JsonTok(UrlObject(PICKED)), Tok("prose")>>,
          <<JsonTok(UrlObject(JNull))>>,
          <<JsonTok(UrlObject(JStr(<<>>)))>>,
          <<JsonTok(<<>>)>>,
          <<Tok("value")>>,
          <<Tok("prose")>>, <<Tok("broken")>>, <<>> }}
    \cup {Completion("LLMError", <<>>), Completion("TimeoutError", <<>>)}

DiscoverInit ==
    /\ pc = "discover"
    /\ soup \in Soups
    /\ llm_editorial_finder \in BOOLEAN
    /\ finder_llm \in BOOLEAN
    /\ finderRequests = <<>> /\ finderReply = NoReply
    /\ findOut = NoCall /\ discOut = NoCall /\ links = NoCall
    /\ requested = C1900 /\ llm_client = FALSE /\ full_text = <<>>
    /\ expected_problems = <<>> /\ llmRequests = <<>> /\ llmReply = NoReply
    /\ segOut = NoCall
    /\ NormIdle /\ ParseIdle /\ PipeIdle /\ BenchIdle /\ RestIdle

DiscoverRest == <<normVars, parseVars, pipeVars, restVars, requested, llm_client, full_text,
                  expected_problems, llmRequests, llmReply, segOut, soup,
                  llm_editorial_finder, finder_llm, benchVars>>

\* _extract_editorial_url and find_editorial_url up to the completion call
\* (contest_page_parser.py 128-139, llm_editorial_finder.py 35-48, 153-202)
ExtractEditorialUrl ==
    /\ pc = "discover"
    /\ IF ~llm_editorial_finder
       THEN /\ discOut' = ExtractEditorialUrlRegex(soup)
            /\ pc' = "discovered"
            /\ UNCHANGED <<findOut, links, finderRequests>>
       ELSE IF ~finder_llm
       THEN /\ findOut' = JNull
            /\ discOut' = DiscoveryResult(JNull, soup)
            /\ pc' = "discovered"
            /\ UNCHANGED <<links, finderRequests>>
       ELSE IF ExtractLinks(soup) = <<>>
       THEN /\ links' = JList(ExtractLinks(soup))
            /\ findOut' = JList(<<>>)
            /\ discOut' = DiscoveryResult(JList(<<>>), soup)
            /\ pc' = "discovered"
            /\ UNCHANGED finderRequests
       ELSE /\ links' = JList(ExtractLinks(soup))
            /\ finderRequests' = Append(finderRequests, ExtractLinks(soup))
            /\ pc' = "awaiting_finder"
            /\ UNCHANGED <<findOut, discOut>>
    /\ UNCHANGED <<finderReply, DiscoverRest>>

\* the completion returns or raises; _ask_llm_for_editorial, find_editorial_url and
\* _extract_editorial_url end (llm_editorial_finder.py 204-222, 49-56,
\* contest_page_parser.py 133-143)
FinderFinish ==
    /\ pc = "awaiting_finder"
    /\ \E reply \in FinderReplies :
          /\ finderReply' = reply
          /\ findOut' = AskOutcome(reply)
          /\ discOut' = DiscoveryResult(AskOutcome(reply), soup)
    /\ pc' = "discovered"
    /\ UNCHANGED <<links, finderRequests, DiscoverRest>>

DiscoverNext == ExtractEditorialUrl \/ FinderFinish

SpecDiscover == DiscoverInit /\ [][DiscoverNext]_vars

(***************************************************************************)
(* BenchmarkRunner._is_result_correct.                                     *)
(***************************************************************************)
RetBool(b) == [kind |-> "bool", v |-> b]

RECURSIVE RStrip(_, _)
\* str.rstrip(chars) for one character
RStrip(text, c) ==
    IF text # <<>> /\ text[Len(text)] = c THEN RStrip(SubSeq(text, 1, Len(text) - 1), c)
    ELSE text

\* NormalizeUrl without the lower()
NormalizeUrlCased(url) == RStrip(url, "/")

\* url.rstrip("/").lower()
NormalizeUrl(url) == Lower(RStrip(url, "/"))

RECURSIVE MatchFrom(_, _, _)
\* for url in found: if url.rstrip("/").lower() == expected_normalized: return True
MatchFrom(found, i, expected_normalized) ==
    IF i > Len(found) THEN RetBool(FALSE)
    ELSE IF found[i].t # "str" THEN Raise("AttributeError")
    ELSE IF NormalizeUrl(found[i].v) = expected_normalized THEN RetBool(TRUE)
    ELSE MatchFrom(found, i + 1, expected_normalized)

\* BenchmarkRunner._is_result_correct; found is a list, or None when the finder
\* returned None
IsResultCorrect(expected, found) ==
    IF found.t # "list" THEN Raise("TypeError")
    ELSE IF expected = JNull /\ Len(found.v) = 0 THEN RetBool(TRUE)
    ELSE IF expected # JNull /\ Len(found.v) = 0 THEN RetBool(FALSE)
    ELSE IF expected = JNull /\ Len(found.v) > 0 THEN RetBool(FALSE)
    ELSE MatchFrom(found.v, 1, NormalizeUrl(expected.v))

(***************************************************************************)
(* SpecCorrect: _is_result_correct applied to one expected value and one   *)
(* found list.                                                             *)
(***************************************************************************)
UrlSamples ==
    { Chars("https://x/1"), Chars("https://x/1/"), Chars("HTTPS://X/1//"),
      Chars("https://x/2"), Chars("https://x/1/a"), <<>> }

CorrectInit ==
    /\ pc = "is_correct"
    /\ tcExpected \in {JNull} \cup {JStr(u) : u \in UrlSamples}
    /\ tcFound \in {JList(f) : f \in SeqsUpTo({JStr(u) : u \in UrlSamples}, MaxFound)}
    /\ isCorrectOut = NoCall
    /\ AverageIdle /\ ModelIdle
    /\ requested = C1900 /\ llm_client = FALSE /\ full_text = <<>>
    /\ expected_problems = <<>> /\ llmRequests = <<>> /\ llmReply = NoReply
    /\ segOut = NoCall
    /\ NormIdle /\ ParseIdle /\ PipeIdle /\ DiscIdle /\ RestIdle

\* _is_result_correct(expected, found) returns
IsResultCorrectCall ==
    /\ pc = "is_correct"
    /\ isCorrectOut' = IsResultCorrect(tcExpected, tcFound)
    /\ pc' = "is_correct_done"
    /\ UNCHANGED <<normVars, parseVars, pipeVars, discVars, restVars, requested, llm_client,
                   full_text, expected_problems, llmRequests, llmReply, segOut,
                   tcExpected, tcFound, averageVars, modelVars>>

CorrectNext == IsResultCorrectCall

SpecCorrect == CorrectInit /\ [][CorrectNext]_vars

(***************************************************************************)
(* BenchmarkRunner._test_single_run and test_single_case_with_averaging.   *)
(* A latency is a whole number of milliseconds and a mean is the exact     *)
(* fraction [num, den]; an error is None or a string.                      *)
(***************************************************************************)
TestResult(contest_id, expected_editorial, found_editorial, is_correct, latency_ms, error) ==
    [contest_id |-> contest_id, expected_editorial |-> expected_editorial,
     found_editorial |-> found_editorial, is_correct |-> is_correct,
     latency_ms |-> latency_ms, error |-> error]

Returns(value) == [kind |-> "return", v |-> value]

LLM_ERROR == JStr(Chars("LLM Error: no key"))
HTTP_ERROR == JStr(Chars("Error: 503"))

\* LLMEditorialFinder.find_editorial_url of a finder that has a client
FindEditorialUrl(page, reply) ==
    IF ExtractLinks(page) = <<>> THEN JList(<<>>) ELSE AskOutcome(reply)

\* the try block of _test_single_run and its two handlers: [found_editorial, error].
\* world is what the run meets: whether the client's construction raises LLMError,
\* whether the page is in the cache, whether the HTTP request fails, the page, the
\* completion
TryFind(world) ==
    IF world.create = "LLMError"
    THEN [found_editorial |-> JList(<<>>), error |-> LLM_ERROR]
    ELSE IF ~world.cached /\ world.http = "error"
    THEN [found_editorial |-> JList(<<>>), error |-> HTTP_ERROR]
    ELSE [found_editorial |-> FindEditorialUrl(world.page, world.reply),
          error |-> JNull]

\* BenchmarkRunner._test_single_run: the TestResult it returns, or what it raises
TestSingleRun(contest_id, expected_editorial, world) ==
    LET tried == TryFind(world)
        is_correct == IsResultCorrect(expected_editorial, tried.found_editorial)
    IN  IF is_correct.kind = "raise" THEN is_correct
        ELSE Returns(TestResult(contest_id, expected_editorial, tried.found_editorial,
                                is_correct.v, world.latency_ms, tried.error))

\* a runner that stores no page
CacheNever(cache, contest_id, world) == cache

\* fetch_contest_page_html: the cache after the run
CacheAfter(cache, contest_id, world) ==
    IF world.create = "ok" /\ ~world.cached /\ world.http = "ok"
    THEN cache \cup {contest_id}
    ELSE cache

\* fetch_contest_page_html: the requests http_client.get_text has answered after the
\* run; a page in the cache is returned without a request (lines 57-59)
NetAfter(log, contest_id, world) ==
    IF world.create = "ok" /\ ~world.cached
    THEN log (+) SetToBag({[contest_id |-> contest_id, ok |-> world.http = "ok"]})
    ELSE log

RECURSIVE SumLatency(_, _)
\* sum(r.latency_ms for r in results)
SumLatency(rs, i) ==
    IF i > Len(rs) THEN 0 ELSE rs[i].latency_ms + SumLatency(rs, i + 1)

\* sum(1 for r in results if r.is_correct)
CorrectCount(rs) == Cardinality({i \in 1..Len(rs) : rs[i].is_correct})

\* the vote with a tie counted as correct
MajorityOrTie(correct_count, runs) == 2 * correct_count >= runs

\* correct_count > (runs_per_test / 2)
Majority(correct_count, runs) == 2 * correct_count > runs

\* Counter(tuples)[tuples[i]]
CountOf(tuples, i) == Cardinality({j \in 1..Len(tuples) : tuples[j] = tuples[i]})

\* Counter(tuples).most_common(1)[0][0]: the keys are kept in the order they were
\* first seen and the first of the largest count is taken
MostCommon(tuples) ==
    LET first == {i \in 1..Len(tuples) : \A j \in 1..(i - 1) : tuples[j] # tuples[i]}
        best  == {i \in first : \A j \in first : CountOf(tuples, j) <= CountOf(tuples, i)}
    IN  tuples[Min(best)]

\* errors = [r.error for r in results if r.error]; errors[0] if errors else None
FirstError(rs) ==
    LET errors == SelectSeq([i \in 1..Len(rs) |-> rs[i].error], Truthy)
    IN  IF errors # <<>> THEN errors[1] ELSE JNull

\* lines 93-117 of test_single_case_with_averaging: the averaged TestResult
Average(contest_id, expected_editorial, rs, runs) ==
    TestResult(contest_id, expected_editorial,
               MostCommon([i \in 1..Len(rs) |-> rs[i].found_editorial]),
               Majority(CorrectCount(rs), runs),
               [num |-> SumLatency(rs, 1), den |-> Len(rs)],
               FirstError(rs))

(***************************************************************************)
(* SpecAverage: one call of test_single_case_with_averaging.               *)
(***************************************************************************)
ENTRY2 == Chars("/blog/entry/2")
ANOTHER == JStr(ORIGIN \o ENTRY2)

BenchPages == {<<>>, <<Anchor(ENTRY1, Chars("Tutorial"), "sidebar")>>}

BenchReplies ==
    {Completion("", text) : text \in
        { <<JsonTok(UrlObject(PICKED))>>,
          <<JsonTok(UrlObject(ANOTHER))>>,
          <<JsonTok(UrlObject(JNum(<<"5">>)))>>,
          <<JsonTok(UrlObject(JNull))>>,
          <<Tok("prose")>> }}
    \cup {Completion("LLMError", <<>>), Completion("TimeoutError", <<>>)}

Latencies == {10, 25}

WorldsOf(cache, contest_id, page, replies, latencies) ==
    [create : {"ok", "LLMError"}, cached : {contest_id \in cache},
     http : {"ok", "error"}, page : {page}, reply : replies,
     latency_ms : latencies]

Worlds(cache, contest_id, page) ==
    WorldsOf(cache, contest_id, page, BenchReplies, Latencies)

AverageInit ==
    /\ pc = "averaging"
    /\ tcExpected \in {JNull, PICKED}
    /\ runs_per_test \in 1..MaxRuns
    /\ benchPage \in BenchPages
    /\ html_cache = {}
    /\ netLog = EmptyBag
    /\ runResults = <<>>
    /\ averaged = NoCall
    /\ ModelIdle
    /\ tcFound = JList(<<>>) /\ isCorrectOut = NoCall
    /\ requested = C1900 /\ llm_client = FALSE /\ full_text = <<>>
    /\ expected_problems = <<>> /\ llmRequests = <<>> /\ llmReply = NoReply
    /\ segOut = NoCall
    /\ NormIdle /\ ParseIdle /\ PipeIdle /\ DiscIdle /\ RestIdle

\* one pass of the loop of test_single_case_with_averaging (lines 87-91); after the
\* last run the results are averaged and returned (lines 93-117); an exception of
\* the run ends the call
TestSingleCaseRun ==
    /\ pc = "averaging"
    /\ \E world \in Worlds(html_cache, C1900, benchPage) :
          LET result == TestSingleRun(C1900, tcExpected, world)
              rs == Append(runResults, result.v)
          IN  /\ html_cache' = CacheAfter(html_cache, C1900, world)
              /\ netLog' = NetAfter(netLog, C1900, world)
              /\ IF result.kind = "raise"
                 THEN /\ averaged' = result
                      /\ pc' = "averaged"
                      /\ UNCHANGED runResults
                 ELSE /\ runResults' = rs
                      /\ IF Len(rs) = runs_per_test
                         THEN /\ averaged' = Returns(Average(C1900, tcExpected, rs,
                                                             runs_per_test))
                              /\ pc' = "averaged"
                         ELSE UNCHANGED <<averaged, pc>>
    /\ UNCHANGED <<normVars, parseVars, pipeVars, discVars, restVars, requested, llm_client,
                   full_text, expected_problems, llmRequests, llmReply, segOut,
                   tcExpected, tcFound, isCorrectOut, runs_per_test, benchPage,
                   modelVars>>

AverageNext == TestSingleCaseRun

SpecAverage == AverageInit /\ [][AverageNext]_vars

(***************************************************************************)
(* benchmarks/metrics.py: calculate_metrics.  A float is the exact         *)
(* fraction [num, den] with den > 0.                                       *)
(***************************************************************************)
Frac(num, den) == [num |-> num, den |-> den]
ZERO == Frac(0, 1)
FracAdd(a, b) == Frac(a.num * b.den + b.num * a.den, a.den * b.den)
FracLeq(a, b) == a.num * b.den <= b.num * a.den

RECURSIVE FracSum(_, _)
\* sum(latencies)
FracSum(latencies, i) ==
    IF i > Len(latencies) THEN ZERO
    ELSE FracAdd(latencies[i], FracSum(latencies, i + 1))

RECURSIVE Sorted(_)
\* sorted(latencies): each value goes behind the values that are not larger
Sorted(latencies) ==
    IF latencies = <<>> THEN <<>>
    ELSE LET n      == Len(latencies)
             x      == latencies[n]
             before == Sorted(SubSeq(latencies, 1, n - 1))
             keep   == Cardinality({i \in 1..(n - 1) : FracLeq(before[i], x)})
         IN  SubSeq(before, 1, keep) \o <<x>> \o SubSeq(before, keep + 1, n - 1)

\* sum(1 for r in results if <condition>), flags the condition of each result
CountWhere(flags) == Cardinality({i \in 1..Len(flags) : flags[i]})

\* the error-free results, counted with the results that have an error
SuccessfulWithErrors(rs) == Len(rs)

\* sum(1 for r in results if r.error is None)
Successful(rs) == CountWhere([i \in 1..Len(rs) |-> rs[i].error = JNull])

\* calculate_metrics
CalculateMetrics(rs) ==
    LET successful_tests == Successful(rs)
        correct   == CountWhere([i \in 1..Len(rs) |->
                        rs[i].is_correct /\ rs[i].error = JNull])
        latencies == LET ok == SelectSeq(rs, LAMBDA r : r.error = JNull)
                     IN  [i \in 1..Len(ok) |-> ok[i].latency_ms]
        ordered   == Sorted(latencies)
        sum       == FracSum(latencies, 1)
    IN  [ total_tests      |-> Len(rs),
          successful_tests |-> successful_tests,
          failed_tests     |-> Len(rs) - successful_tests,
          accuracy         |-> IF successful_tests > 0
                               THEN Frac(correct * 100, successful_tests) ELSE ZERO,
          avg_latency_ms   |-> IF latencies # <<>>
                               THEN Frac(sum.num, sum.den * Len(latencies)) ELSE ZERO,
          median_latency_ms |-> IF latencies # <<>>
                                THEN ordered[(Len(latencies) \div 2) + 1] ELSE ZERO,
          min_latency_ms   |-> IF latencies # <<>> THEN ordered[1] ELSE ZERO,
          max_latency_ms   |-> IF latencies # <<>> THEN ordered[Len(ordered)] ELSE ZERO,
          true_positives   |-> CountWhere([i \in 1..Len(rs) |->
                                   /\ rs[i].expected_editorial # JNull
                                   /\ Len(rs[i].found_editorial.v) > 0 /\ rs[i].is_correct]),
          false_positives  |-> CountWhere([i \in 1..Len(rs) |->
                                   /\ rs[i].expected_editorial = JNull
                                   /\ Len(rs[i].found_editorial.v) > 0 /\ ~rs[i].is_correct]),
          false_negatives  |-> CountWhere([i \in 1..Len(rs) |->
                                   /\ rs[i].expected_editorial # JNull
                                   /\ Len(rs[i].found_editorial.v) = 0]),
          true_negatives   |-> CountWhere([i \in 1..Len(rs) |->
                                   /\ rs[i].expected_editorial = JNull
                                   /\ Len(rs[i].found_editorial.v) = 0 /\ rs[i].is_correct]),
          test_results     |-> rs ]

(***************************************************************************)
(* SpecBench: one call of benchmark_model.  The tasks of a batch run       *)
(* interleaved; asyncio.gather returns their results in the order of the   *)
(* batch, or raises what the first failing task raised.                    *)
(***************************************************************************)
TestCase(k, expected_editorial) ==
    [contest_id |-> Decimal(2183 + k), expected_editorial |-> expected_editorial]

\* the lists of test cases: contests with and without an editorial in turn
TestCaseLists ==
    {[k \in 1..Len(es) |-> TestCase(k, es[k])] :
        es \in {e \in SeqsUpTo({JNull, PICKED}, MaxCases) \ {<<>>} :
                   \A k \in 1..(Len(e) - 1) : e[k] # e[k + 1]}}

ModelReplies ==
    { Completion("", <<JsonTok(UrlObject(PICKED))>>),
      Completion("", <<JsonTok(UrlObject(JNull))>>),
      Completion("", <<Tok("prose")>>),
      Completion("LLMError", <<>>) }

\* every test case from i on in one batch
BatchRest(cases, i, size) == SubSeq(cases, i + 1, Len(cases))

\* batch = BENCHMARK_TEST_CASES[i : i + parallel_requests]
Batch(cases, i, size) == SubSeq(cases, i + 1, Min({i + size, Len(cases)}))

Pending(batch) == [k \in 1..Len(batch) |-> NoCall]
NoRuns(batch)  == [k \in 1..Len(batch) |-> <<>>]
NotRunning(batch) == [k \in 1..Len(batch) |-> 0]

\* the cache and the requests an earlier benchmark_model of the runner has left: one
\* answered request for every page it holds
FetchedOnce(cache) == SetToBag({[contest_id |-> c, ok |-> TRUE] : c \in cache})

BenchInit ==
    /\ pc = "benchmark"
    /\ test_cases \in TestCaseLists
    /\ parallel_requests \in 1..MaxParallel
    /\ runs_per_test \in 1..MaxBenchRuns
    /\ Len(test_cases) * runs_per_test <= MaxTotalRuns
    /\ benchPage \in BenchPages
    /\ html_cache \in {{}, {test_cases[1].contest_id}}
    /\ netLog = FetchedOnce(html_cache)
    /\ batch_i = 0
    /\ taskRuns = NoRuns(Batch(test_cases, 0, parallel_requests))
    /\ taskOut = Pending(Batch(test_cases, 0, parallel_requests))
    /\ running = NotRunning(Batch(test_cases, 0, parallel_requests))
    /\ results = <<>>
    /\ benchOut = NoCall /\ metrics = NoCall
    /\ runResults = <<>> /\ averaged = NoCall
    /\ tcExpected = JNull /\ tcFound = JList(<<>>) /\ isCorrectOut = NoCall
    /\ requested = C1900 /\ llm_client = FALSE /\ full_text = <<>>
    /\ expected_problems = <<>> /\ llmRequests = <<>> /\ llmReply = NoReply
    /\ segOut = NoCall
    /\ NormIdle /\ ParseIdle /\ PipeIdle /\ DiscIdle /\ RestIdle

\* gather has returned: results.extend(batch_results), then the next batch starts,
\* or calculate_metrics is returned (lines 242-256)
BatchDone(outs) ==
    LET extended == results \o [k \in 1..Len(outs) |-> outs[k].v]
        next_i   == batch_i + parallel_requests
    IN  /\ results' = extended
        /\ IF next_i < Len(test_cases)
           THEN /\ batch_i' = next_i
                /\ taskRuns' = NoRuns(Batch(test_cases, next_i, parallel_requests))
                /\ taskOut' = Pending(Batch(test_cases, next_i, parallel_requests))
                /\ running' = NotRunning(Batch(test_cases, next_i, parallel_requests))
                /\ UNCHANGED <<benchOut, pc>>
           ELSE /\ benchOut' = Returns(CalculateMetrics(extended))
                /\ pc' = "benchmarked"
                /\ running' = NotRunning(outs)
                /\ UNCHANGED <<batch_i, taskRuns, taskOut>>

\* result = await self._test_single_run(...): the loop of a task goes on to its next
\* run when the run before it has returned (lines 87-91)
RunAwaited(started) == started = 0

\* a task of the batch starts its next run
BenchRunStart ==
    /\ pc = "benchmark"
    /\ \E k \in 1..Len(taskOut) :
          /\ taskOut[k].kind = "nocall"
          /\ RunAwaited(running[k])
          /\ running' = [running EXCEPT ![k] = @ + 1]
    /\ UNCHANGED <<normVars, parseVars, pipeVars, discVars, restVars, requested, llm_client,
                   full_text, expected_problems, llmRequests, llmReply, segOut,
                   tcExpected, tcFound, isCorrectOut, averageVars, test_cases,
                   parallel_requests, batch_i, taskRuns, taskOut, results, benchOut,
                   metrics, pc>>

\* a run of a task of the batch returns (test_single_case_with_averaging, lines
\* 87-91) and the task, after its last run, returns the averaged result; an exception
\* of the run leaves the task and gather, and benchmark_model raises it (line 242)
BenchTaskRun ==
    /\ pc = "benchmark"
    /\ \E k \in 1..Len(taskOut) :
          /\ taskOut[k].kind = "nocall"
          /\ running[k] > 0
          /\ LET tc == Batch(test_cases, batch_i, parallel_requests)[k]
             IN  \E world \in WorldsOf(html_cache, tc.contest_id, benchPage,
                                       ModelReplies, {10}) :
                   LET result == TestSingleRun(tc.contest_id, tc.expected_editorial,
                                               world)
                       runs == Append(taskRuns[k], result.v)
                       outs == [taskOut EXCEPT ![k] =
                                   Returns(Average(tc.contest_id, tc.expected_editorial,
                                                   runs, runs_per_test))]
                       done == [running EXCEPT ![k] = @ - 1]
                   IN  /\ html_cache' = CacheAfter(html_cache, tc.contest_id, world)
                       /\ netLog' = NetAfter(netLog, tc.contest_id, world)
                       /\ IF result.kind = "raise"
                          THEN /\ benchOut' = result
                               /\ pc' = "benchmarked"
                               /\ running' = done
                               /\ UNCHANGED <<batch_i, taskRuns, taskOut, results>>
                          ELSE IF Len(runs) < runs_per_test
                          THEN /\ taskRuns' = [taskRuns EXCEPT ![k] = runs]
                               /\ running' = done
                               /\ UNCHANGED <<batch_i, taskOut, results, benchOut, pc>>
                          ELSE IF \E j \in 1..Len(outs) : outs[j].kind = "nocall"
                          THEN /\ taskRuns' = [taskRuns EXCEPT ![k] = runs]
                               /\ taskOut' = outs
                               /\ running' = done
                               /\ UNCHANGED <<batch_i, results, benchOut, pc>>
                          ELSE BatchDone(outs)
    /\ UNCHANGED <<normVars, parseVars, pipeVars, discVars, restVars, requested, llm_client,
                   full_text, expected_problems, llmRequests, llmReply, segOut,
                   tcExpected, tcFound, isCorrectOut, runs_per_test, benchPage,
                   runResults, averaged, test_cases, parallel_requests, metrics>>

BenchNext == BenchRunStart \/ BenchTaskRun

SpecBench == BenchInit /\ [][BenchNext]_vars

(***************************************************************************)
(* SpecMetrics: calculate_metrics applied to one list of results.  Each    *)
(* sample is what test_single_case_with_averaging returns for the runs     *)
(* named.                                                                  *)
(***************************************************************************)
LinkedPage == <<Anchor(ENTRY1, Chars("Tutorial"), "sidebar")>>

Met(http, url, latency_ms) ==
    [create |-> "ok", cached |-> FALSE, http |-> http, page |-> LinkedPage,
     reply |-> Completion("", <<JsonTok(UrlObject(url))>>), latency_ms |-> latency_ms]

Averaged(expected_editorial, worlds) ==
    Average(C1900, expected_editorial,
            [i \in 1..Len(worlds) |->
                TestSingleRun(C1900, expected_editorial, worlds[i]).v],
            Len(worlds))

ResultSamples ==
    { Averaged(PICKED, <<Met("ok", PICKED, 10)>>),
      Averaged(PICKED, <<Met("ok", ANOTHER, 25)>>),
      Averaged(PICKED, <<Met("error", PICKED, 10)>>),
      Averaged(PICKED, <<Met("ok", JNull, 10), Met("ok", JNull, 25)>>),
      Averaged(JNull, <<Met("ok", JNull, 10)>>),
      Averaged(JNull, <<Met("error", JNull, 25)>>),
      Averaged(JNull, <<Met("ok", ANOTHER, 25)>>),
      Averaged(JNull, <<Met("ok", JNull, 10), Met("ok", ANOTHER, 25)>>) }

MetricsInit ==
    /\ pc = "metrics"
    /\ results \in SeqsUpTo(ResultSamples, MaxResults)
    /\ metrics = NoCall
    /\ test_cases = <<>> /\ parallel_requests = PARALLEL_REQUESTS /\ batch_i = 0
    /\ taskRuns = <<>> /\ taskOut = <<>> /\ running = <<>> /\ benchOut = NoCall
    /\ AverageIdle
    /\ tcExpected = JNull /\ tcFound = JList(<<>>) /\ isCorrectOut = NoCall
    /\ requested = C1900 /\ llm_client = FALSE /\ full_text = <<>>
    /\ expected_problems = <<>> /\ llmRequests = <<>> /\ llmReply = NoReply
    /\ segOut = NoCall
    /\ NormIdle /\ ParseIdle /\ PipeIdle /\ DiscIdle /\ RestIdle

\* calculate_metrics(model_name, display_name, results) returns
CalculateMetricsCall ==
    /\ pc = "metrics"
    /\ metrics' = Returns(CalculateMetrics(results))
    /\ pc' = "metrics_done"
    /\ UNCHANGED <<normVars, parseVars, pipeVars, discVars, restVars, requested, llm_client,
                   full_text, expected_problems, llmRequests, llmReply, segOut,
                   tcExpected, tcFound, isCorrectOut, averageVars, test_cases,
                   parallel_requests, batch_i, taskRuns, taskOut, running, results,
                   benchOut>>

MetricsNext == CalculateMetricsCall

SpecMetrics == MetricsInit /\ [][MetricsNext]_vars

(***************************************************************************)
(* ContestService.get_contest: the map of problemset.problems and          *)
(* _fetch_problem_details.  A problem of an API response is                *)
(* [contestId, index, rating, tags]: rating is JNull when the key is       *)
(* missing, tags is empty when the key is missing.                         *)
(***************************************************************************)
ApiProblem(contestId, index, rating, tags) ==
    [contestId |-> contestId, index |-> index, rating |-> rating, tags |-> tags]

\* problem_map.get(key, {})
NoMetadata == ApiProblem(0, <<>>, JNull, <<>>)

\* key = (str(problem.get("contestId")), problem.get("index"))
ProblemKey(problem) == <<Decimal(problem.contestId), problem.index>>

RECURSIVE ProblemMapFrom(_, _)
\* for problem in all_problems: problem_map[key] = problem (lines 63-67): the
\* entries by key, a later problem of the same key replacing the earlier one
ProblemMapFrom(all_problems, n) ==
    IF n = 0 THEN <<>>
    ELSE LET before  == ProblemMapFrom(all_problems, n - 1)
             problem == all_problems[n]
             at      == {i \in 1..Len(before) : before[i].key = ProblemKey(problem)}
             entry   == [key |-> ProblemKey(problem), value |-> problem]
         IN  IF at = {} THEN Append(before, entry)
             ELSE [before EXCEPT ![Min(at)] = entry]

\* problem_map.get(key, {})
MapGet(map, key) ==
    LET at == {i \in 1..Len(map) : map[i].key = key}
    IN  IF at = {} THEN NoMetadata ELSE map[Min(at)].value

\* problem_metadata = problem_map.get(key, {}) (lines 126-128)
ProblemMetadata(api_data, map, key) == MapGet(map, key)

\* ContestService._fetch_problem_details: the ContestProblem it returns
FetchProblemDetails(contest_id, problem_id, api_data, map, page) ==
    LET problem_metadata == ProblemMetadata(api_data, map, <<contest_id, problem_id>>)
    IN  Returns([contest_id |-> contest_id, id |-> problem_id,
                 rating |-> problem_metadata.rating, tags |-> problem_metadata.tags,
                 has_statement |-> page])

(***************************************************************************)
(* SpecRating: _fetch_problem_details for one problem of contest 102.      *)
(***************************************************************************)
C102 == Chars("102")
R1200 == JNum(Chars("1200"))
R1500 == JNum(Chars("1500"))

StandingsProblems ==
    {ApiProblem(102, i, r.rating, r.tags) :
        i \in {<<"A">>, <<"D">>},
        r \in {[rating |-> R1200, tags |-> <<"dp">>], [rating |-> JNull, tags |-> <<>>],
               [rating |-> JNull, tags |-> <<"dp">>]}}

ProblemsetProblems ==
    { ApiProblem(102, <<"A">>, R1500, <<"math">>),
      ApiProblem(102, <<"A">>, JNull, <<>>),
      ApiProblem(102, <<"D">>, R1200, <<"dp">>),
      ApiProblem(103, <<"A">>, R1500, <<"greedy">>) }

RatingInit ==
    /\ pc = "problem"
    /\ api_problem_data \in StandingsProblems
    /\ \E all_problems \in SeqsUpTo(ProblemsetProblems, MaxProblemset) :
          problem_map = ProblemMapFrom(all_problems, Len(all_problems))
    /\ problemPage \in BOOLEAN
    /\ problemOut = NoCall
    /\ requested = C102 /\ llm_client = FALSE /\ full_text = <<>>
    /\ expected_problems = <<>> /\ llmRequests = <<>> /\ llmReply = NoReply
    /\ segOut = NoCall
    /\ NormIdle /\ ParseIdle /\ PipeIdle /\ DiscIdle /\ BenchIdle /\ OtherIdle

\* _fetch_problem_details(contest_id, problem_id, problem_data, problem_map) returns
FetchProblemDetailsCall ==
    /\ pc = "problem"
    /\ problemOut' = FetchProblemDetails(requested, api_problem_data.index,
                                         api_problem_data, problem_map, problemPage)
    /\ pc' = "problem_done"
    /\ UNCHANGED <<normVars, parseVars, pipeVars, discVars, benchVars, requested,
                   llm_client, full_text, expected_problems, llmRequests, llmReply,
                   segOut, api_problem_data, problem_map, problemPage, otherVars>>

RatingNext == FetchProblemDetailsCall

SpecRating == RatingInit /\ [][RatingNext]_vars

(***************************************************************************)
(* SpecClean: _clean_extracted_text applied to a text and to its result.   *)
(***************************************************************************)
LineSamples ==
    { Chars("Problem"), Chars("tags: dp"), Chars("Download as pdf"), Chars("sum"),
      <<>> }

RECURSIVE JoinLines(_, _)
\* the lines from line i on, a newline between two lines
JoinLines(lines, i) ==
    IF i > Len(lines) THEN <<>>
    ELSE IF i = Len(lines) THEN lines[i]
    ELSE lines[i] \o <<"\n">> \o JoinLines(lines, i + 1)

CleanInit ==
    /\ pc = "clean"
    /\ cleanIn \in {JoinLines(lines, 1) : lines \in SeqsUpTo(LineSamples, MaxLines)}
    /\ cleanOut = NoCall /\ cleanAgain = NoCall
    /\ requested = C1900 /\ llm_client = FALSE /\ full_text = <<>>
    /\ expected_problems = <<>> /\ llmRequests = <<>> /\ llmReply = NoReply
    /\ segOut = NoCall
    /\ NormIdle /\ ParseIdle /\ PipeIdle /\ DiscIdle /\ BenchIdle /\ RatingIdle
    /\ OrchIdle

CleanRest == <<normVars, parseVars, pipeVars, discVars, benchVars, ratingVars, orchVars,
               requested,
               llm_client, full_text, expected_problems, llmRequests, llmReply, segOut>>

\* _clean_extracted_text(text) returns
CleanCall ==
    /\ pc = "clean"
    /\ cleanOut' = Returns(CleanExtractedText(cleanIn))
    /\ pc' = "cleaned"
    /\ UNCHANGED <<cleanIn, cleanAgain, CleanRest>>

\* _clean_extracted_text applied to the text it returned
CleanAgainCall ==
    /\ pc = "cleaned"
    /\ cleanAgain' = Returns(CleanExtractedText(cleanOut.v))
    /\ pc' = "cleaned_again"
    /\ UNCHANGED <<cleanIn, cleanOut, CleanRest>>

CleanNext == CleanCall \/ CleanAgainCall

SpecClean == CleanInit /\ [][CleanNext]_vars

(***************************************************************************)
(* AsyncEditorialOrchestrator.get_editorial.  The cache is a set of        *)
(* entries [key, data].  world is what one call meets: whether the cache   *)
(* read and the cache write raise, whether the problem page parses, how    *)
(* many of the three later steps of the pipeline (find the tutorial, parse *)
(* it, extract the editorial) succeed.                                     *)
(***************************************************************************)
ProblemIdentifier(contest_id, problem_index) ==
    [contest_id |-> contest_id, problem_index |-> problem_index]

\* ProblemIdentifier.cache_key: f"{self.contest_id}-{self.problem_index}"
CacheKey(identifier) ==
    Decimal(identifier.contest_id) \o <<"-">> \o identifier.problem_index

CachedEditorial(identifier, editorial) ==
    [problem |-> identifier, editorial |-> editorial]

\* CachedEditorial.to_dict and from_dict
ToDict(cached_editorial) == [dict |-> cached_editorial]
FromDict(cached_data) == cached_data.dict

NotCached == [problem |-> ProblemIdentifier(0, <<>>), editorial |-> 0]

CacheOp(op, key, ok) == [op |-> op, key |-> key, ok |-> ok]

\* _get_from_cache (lines 151-161): what it returns and the operations it issued
GetFromCache(client, store, cache_key, world) ==
    IF ~client THEN [cached |-> NotCached, ops |-> <<>>]
    ELSE IF world.get = "raise"
    THEN [cached |-> NotCached, ops |-> <<CacheOp("get", cache_key, FALSE)>>]
    ELSE IF \E e \in store : e.key = cache_key
    THEN [cached |-> FromDict((CHOOSE e \in store : e.key = cache_key).data),
          ops |-> <<CacheOp("get", cache_key, TRUE)>>]
    ELSE [cached |-> NotCached, ops |-> <<CacheOp("get", cache_key, TRUE)>>]

\* _save_to_cache (lines 171-178): the cache after it and the operations it issued
SaveToCache(client, store, cache_key, cached_editorial, world) ==
    IF ~client THEN [store |-> store, ops |-> <<>>]
    ELSE IF world.set = "raise"
    THEN [store |-> store, ops |-> <<CacheOp("set", cache_key, FALSE)>>]
    ELSE [store |-> {e \in store : e.key # cache_key}
                     \cup {[key |-> cache_key, data |-> ToDict(cached_editorial)]},
          ops |-> <<CacheOp("set", cache_key, TRUE)>>]

PipelineSteps == <<"problem_parser", "tutorial_finder", "tutorial_parser",
                   "editorial_extractor">>

\* the steps of _run_extraction_pipeline that are invoked (lines 105-118): all of
\* them, or those up to the first that raises
PipelineInvoked(world) ==
    IF world.page = "raise" THEN SubSeq(PipelineSteps, 1, 1)
    ELSE SubSeq(PipelineSteps, 1, Min({world.steps + 2, Len(PipelineSteps)}))

PipelineSucceeds(world) == world.page = "ok" /\ world.steps = Len(PipelineSteps) - 1

\* lines 73-77: a CodeforcesEditorialError goes through, any other exception is
\* raised again as CodeforcesEditorialError
OrchRaise == Raise("CodeforcesEditorialError")

\* get_editorial (lines 51-77) for one identifier: the record of the call, with the
\* cache after it.  fresh is the editorial the extractor gives in this call.
GetEditorial(identifier, client, enabled, store, world, fresh) ==
    LET caching == enabled /\ client
        read == IF caching THEN GetFromCache(client, store, CacheKey(identifier), world)
                ELSE [cached |-> NotCached, ops |-> <<>>]
        hit == read.cached # NotCached
        save == IF caching /\ PipelineSucceeds(world)
                THEN SaveToCache(client, store, CacheKey(identifier),
                                 CachedEditorial(identifier, fresh), world)
                ELSE [store |-> store, ops |-> <<>>]
    IN  IF hit
        THEN [identifier |-> identifier, hit |-> TRUE, ops |-> read.ops,
              invoked |-> SubSeq(PipelineSteps, 1, 1),
              out |-> IF world.page = "ok" THEN Returns(read.cached.editorial)
                      ELSE OrchRaise,
              before |-> store, after |-> store]
        ELSE [identifier |-> identifier, hit |-> FALSE, ops |-> read.ops \o save.ops,
              invoked |-> PipelineInvoked(world),
              out |-> IF PipelineSucceeds(world) THEN Returns(fresh)
                      ELSE OrchRaise,
              before |-> store, after |-> save.store]

(***************************************************************************)
(* SpecOrch: up to MaxRequests calls of get_editorial, one after another,  *)
(* for two problems.                                                       *)
(***************************************************************************)
P1 == ProblemIdentifier(1900, <<"A">>)
P2 == ProblemIdentifier(1900, <<"B">>)

OrchWorlds ==
    [get : {"ok", "raise"}, set : {"ok", "raise"}, page : {"ok", "raise"},
     steps : 0..(Len(PipelineSteps) - 1)]

\* the editorial an earlier process has stored for the first problem
Stored == {[key |-> CacheKey(P1), data |-> ToDict(CachedEditorial(P1, 100))]}

OrchInit ==
    /\ pc = "orchestrate"
    /\ cache_client \in BOOLEAN
    /\ use_cache \in BOOLEAN
    /\ cacheStore \in {{}, Stored}
    /\ cache_client = FALSE => cacheStore = {}
    /\ orchRequests = <<>>
    /\ cleanIn = <<>> /\ cleanOut = NoCall /\ cleanAgain = NoCall
    /\ requested = C1900 /\ llm_client = FALSE /\ full_text = <<>>
    /\ expected_problems = <<>> /\ llmRequests = <<>> /\ llmReply = NoReply
    /\ segOut = NoCall
    /\ NormIdle /\ ParseIdle /\ PipeIdle /\ DiscIdle /\ BenchIdle /\ RatingIdle

\* get_editorial(url) from its call to its return
GetEditorialCall ==
    /\ pc = "orchestrate"
    /\ Len(orchRequests) < MaxRequests
    /\ \E identifier \in {P1, P2}, world \in OrchWorlds :
          LET call == GetEditorial(identifier, cache_client, use_cache, cacheStore, world,
                                   Len(orchRequests) + 1)
          IN  /\ orchRequests' = Append(orchRequests, call)
              /\ cacheStore' = call.after
    /\ UNCHANGED <<normVars, parseVars, pipeVars, discVars, benchVars, ratingVars,
                   cleanVars, cache_client, use_cache, pc, requested, llm_client,
                   full_text, expected_problems, llmRequests, llmReply, segOut>>

OrchNext == GetEditorialCall

SpecOrch == OrchInit /\ [][OrchNext]_vars

(***************************************************************************)
(* SpecCombine: _combine_editorial_content applied to one list of texts.   *)
(***************************************************************************)
HeaderLike ==
    <<"=","=","="," ","E","D","I","T","O","R","I","A","L"," ","S","O","U","R","C","E"," ",
      "1"," ","=","=","=">>

DocSamples == { <<"x">>, <<"y","\n","\n","z">>, <<" ">>, <<>>, HeaderLike }

CombineInit ==
    /\ pc = "combine"
    /\ all_content \in SeqsUpTo(DocSamples, MaxDocs)
    /\ full_text = <<>>
    /\ requested = C1900 /\ llm_client = FALSE /\ expected_problems = <<>>
    /\ llmRequests = <<>> /\ llmReply = NoReply /\ segOut = NoCall
    /\ editorial_parser = FALSE /\ editorial_urls = [given |-> FALSE, urls |-> <<>>]
    /\ urls = <<>> /\ idx = 0 /\ failed_urls = <<>> /\ httpLog = <<>>
    /\ contestWorld = NoWorld /\ in_flight = <<>>
    /\ editorial_data = NoCall
    /\ NormIdle /\ ParseIdle /\ MoreIdle

\* _combine_editorial_content(content_list) returns
CombineCall ==
    /\ pc = "combine"
    /\ full_text' = CombineEditorialContent(all_content)
    /\ pc' = "combined"
    /\ UNCHANGED <<urls, idx, all_content, failed_urls, httpLog, editorial_data,
                   contestWorld, in_flight, PipeRest>>

CombineNext == CombineCall

SpecCombine == CombineInit /\ [][CombineNext]_vars

(***************************************************************************)
(* The claims.                                                             *)
(***************************************************************************)

\* The normalizer as its rule list states it: the first rule that matches the
\* trimmed, upper-cased text, and "no match" when none does.
NormalizeRule(text) ==
    LET s == Upper(Strip(text))
    IN  IF Len(s) = 1 /\ IsAlpha(s[1]) THEN RetLetter(s[1])
        ELSE IF /\ StartsWith(s, PROBLEM_) \/ StartsWith(s, ZADACHA_)
                /\ Len(LastToken(s)) = 1 /\ IsAlpha(LastToken(s)[1])
             THEN RetLetter(LastToken(s)[1])
        ELSE IF Len(s) > 0 /\ IsAlpha(s[Len(s)]) THEN RetLetter(s[Len(s)])
        ELSE IF Len(s) > 0 /\ IsAlpha(s[1]) THEN RetLetter(s[1])
        ELSE RetNone

\* the reply decodes to an object: the first brace starts valid JSON
Decodes(response) == FindBrace(response) # 0 /\ JsonValid(FromBrace(response))
Decoded(response) == FromBrace(response)[1].obj

\* a row that has the three members the new schema asks for
RowHasContest(row)  == row.contest_id.t \in {"str", "num"} /\ Strip(row.contest_id.v) # <<>>
RowHasProblem(row)  == row.problem_id.t = "str" /\ NormalizeRule(row.problem_id.v).kind = "letter"
RowHasAnalysis(row) == row.analysis.t = "str" /\ Strip(row.analysis.v) # <<>>
RowValid(row) == row.isDict /\ RowHasContest(row) /\ RowHasProblem(row) /\ RowHasAnalysis(row)
RowKey(row) == <<JStr(Strip(row.contest_id.v)), NormalizeRule(row.problem_id.v).v>>

\* a legacy pair that the legacy schema keeps
PairValid(pair) ==
    /\ pair.value.t = "str" /\ Strip(pair.value.v) # <<>>
    /\ NormalizeRule(pair.key).kind = "letter"
PairKey(pair) == <<JNull, NormalizeRule(pair.key).v>>

\* C5: for every input string the normalizer returns what the first matching rule
\* of (a) single letter, (b) "PROBLEM "/"ZADACHA " prefix with a single-letter last
\* token, (c) last character alphabetic, (d) first character alphabetic gives on the
\* trimmed, upper-cased input, and "no match" when no rule matches.
C5_NormalizerRules ==
    (nOut # NoCall /\ nIn.t = "str") => nOut = NormalizeRule(nIn.v)

\* C3: when the decoded reply has a "problems" array, the parse returns a map whose
\* key set is exactly the (trimmed contest id, normalized letter) of the rows that
\* have a non-empty contest id, a normalizable problem id and a non-empty trimmed
\* analysis, each key mapped to the trimmed analysis of a row with that key, and no
\* key has a null contest id.
C3_NewSchemaKeys ==
    (pOut # NoCall /\ Decodes(pResp) /\ HasProblemsList(Decoded(pResp))) =>
        LET rows == ProblemsOf(Decoded(pResp))
            valid == {i \in 1..Len(rows) : RowValid(rows[i])}
        IN  /\ pOut.kind = "ok"
            /\ Keys(pOut.dict) = {RowKey(rows[i]) : i \in valid}
            /\ \A e \in Range(pOut.dict) :
                  /\ e.cid # JNull
                  /\ \E i \in valid : /\ RowKey(rows[i]) = <<e.cid, e.pid>>
                                      /\ e.text = Strip(rows[i].analysis.v)

\* C4: when the decoded reply has no "problems" array, the parse returns a map that
\* holds (null, L) -> trimmed value for exactly the pairs whose value is a non-blank
\* string and whose key normalizes to a letter L; every other pair is discarded and
\* every key has a null contest id.
C4_LegacySchemaKeys ==
    (pOut # NoCall /\ Decodes(pResp) /\ ~HasProblemsList(Decoded(pResp))) =>
        LET pairs == Decoded(pResp)
            valid == {i \in 1..Len(pairs) : PairValid(pairs[i])}
        IN  /\ pOut.kind = "ok"
            /\ Keys(pOut.dict) = {PairKey(pairs[i]) : i \in valid}
            /\ \A e \in Range(pOut.dict) :
                  /\ e.cid = JNull
                  /\ \E i \in valid : /\ PairKey(pairs[i]) = <<e.cid, e.pid>>
                                      /\ e.text = Strip(pairs[i].value.v)

\* the prompt that was sent, once one was
Sent == llmRequests # <<>>
PromptText == llmRequests[1].editorial_text

\* the marker as the claim spells it
C6_Marker ==
    <<"\n","\n","[","C","O","N","T","E","N","T"," ","T","R","U","N","C","A","T","E","D",
      " ","D","U","E"," ","T","O"," ","L","E","N","G","T","H","]">>

\* C6: the editorial text of the prompt is the combined text unchanged when that
\* has at most 40,000 characters (40,000 included), and otherwise its first 40,000
\* characters followed by "\n\n[CONTENT TRUNCATED DUE TO LENGTH]".
C6_Truncation ==
    Sent =>
        IF Len(full_text) <= 40000
        THEN PromptText = full_text
        ELSE /\ Len(PromptText) = 40000 + Len(C6_Marker)
             /\ SubSeq(PromptText, 1, 40000) = SubSeq(full_text, 1, 40000)
             /\ SubSeq(PromptText, 40001, Len(PromptText)) = C6_Marker

\* a text of more than 40,000 characters was cut and sent
C6_Witness ==
    /\ Sent /\ Len(full_text) = 40001
    /\ Len(PromptText) = 40035 /\ PromptText[40000] = full_text[40000]

\* C7: without an LLM client, and likewise with a trimmed text of fewer than 50
\* characters, segment ends with a segmentation error and no request was sent to
\* the LLM; the missing client is reported first; a trimmed length of 50 or more
\* with a client sends the request.
C7_Preconditions ==
    pc # "segment" =>
        IF ~llm_client
        THEN /\ segOut.kind = "raise" /\ segOut.err.cls = "LLMSegmentationError"
             /\ segOut.err.msg = "No LLM client available"
             /\ llmRequests = <<>>
        ELSE IF Len(Strip(full_text)) < 50
        THEN /\ segOut.kind = "raise" /\ segOut.err.cls = "LLMSegmentationError"
             /\ segOut.err.msg = "Content too short for segmentation"
             /\ llmRequests = <<>>
        ELSE Len(llmRequests) = 1

\* a text of 50 characters or more whose trimmed length is 49 was refused
C7_Witness ==
    /\ pc = "segmented" /\ llm_client
    /\ Len(full_text) >= 50 /\ Len(Strip(full_text)) = 49
    /\ segOut.kind = "raise" /\ llmRequests = <<>>

\* the parse of the reply failed: no '{', invalid JSON from the first '{' on, or a
\* decoded object that the parse does not handle
ParseFailed ==
    /\ pc = "segmented" /\ llmReply.exc = ""
    /\ ParseLLMResponse(llmReply.text, requested).kind = "raise"

\* C8: when the reply holds no '{', or the text from the first '{' on is not valid
\* JSON (trailing prose included), or the decoded object has a shape the parse does
\* not handle, segment ends with a segmentation error that carries the raw reply
\* (in itself or in the error it was raised from), returns no map, and the LLM was
\* called once.
C8_ParseFailure ==
    ParseFailed =>
        /\ segOut.kind = "raise"
        /\ segOut.dict = <<>>
        /\ segOut.err.cls = "LLMSegmentationError"
        /\ segOut.err.contest = requested
        /\ \/ segOut.err.raw = llmReply.text
           \/ segOut.err.cause.raw = llmReply.text
        /\ Len(llmRequests) = 1

\* the call ended with a result
Answered == pc = "done" /\ editorial_data.kind = "ok"
Mine == JStr(requested)

\* C1: in the result returned for contest C no entry has a contest id that is
\* non-null and differs from C, and when every segmented entry belongs to another
\* contest the result has no analyses.
C1_CrossContestExclusion ==
    Answered =>
        /\ \A e \in Range(editorial_data.editorials) :
              e.contest_id # JNull => e.contest_id = Mine
        /\ (\A d \in Range(segOut.dict) : d.cid \notin {JNull, Mine})
              => editorial_data.editorials = <<>>

\* the texts the segmented map holds for (cid, letter)
TextsAt(cid, letter) ==
    {d.text : d \in {x \in Range(segOut.dict) : x.cid = cid /\ x.pid = letter}}
\* the texts the result attributes to problem letter of the requested contest
Emitted(letter) ==
    {e.analysis_text : e \in {x \in Range(editorial_data.editorials) :
                                x.contest_id = Mine /\ x.problem_id = letter}}
Letters ==
    {d.pid : d \in Range(segOut.dict)}
        \cup {e.problem_id : e \in Range(editorial_data.editorials)}

\* C2: for every letter L the result attributes to problem L of the requested
\* contest C the text of the (C, L) entry of the segmented map when there is one,
\* else the text of the (null, L) entry when there is one, and nothing when there
\* is neither.
C2_LegacyFallback ==
    Answered =>
        \A letter \in Letters :
            Emitted(letter) = IF TextsAt(Mine, letter) # {} THEN TextsAt(Mine, letter)
                              ELSE TextsAt(JNull, letter)

\* the loop over the URLs of parse_editorial_content is over
LoopOver == urls # <<>> /\ pc # "fetching"
AllFailed == \A k \in 1..Len(httpLog) : ~httpLog[k].content.ok

RECURSIVE FetchedTexts(_, _)
\* the texts of the requests that succeeded, in the order of the requests
FetchedTexts(log, k) ==
    IF k > Len(log) THEN <<>>
    ELSE (IF log[k].content.ok THEN <<log[k].content.text>> ELSE <<>>)
            \o FetchedTexts(log, k + 1)

\* C9: once the loop over a non-empty URL list is over, every URL was requested, in
\* input order, whatever failed before it; the call ends with the fetch error that
\* lists the failed URLs exactly when every URL failed; otherwise the text handed to
\* the segmentation is the combination of the texts that were fetched, in input
\* order, the segmentation has run before the call ends, and no fetch error is
\* raised.
C9_PartialFetchFailure ==
    LoopOver =>
        /\ [k \in 1..Len(httpLog) |-> httpLog[k].url] = urls
        /\ AllFailed <=> /\ pc = "done" /\ editorial_data.kind = "raise"
                         /\ editorial_data.cls = "EditorialContentFetchError"
        /\ AllFailed => editorial_data.detail = urls /\ segOut = NoCall
        /\ ~AllFailed =>
              /\ full_text = CombineEditorialContent(FetchedTexts(httpLog, 1))
              /\ pc = "done" => segOut # NoCall
              /\ llmRequests # <<>> =>
                    llmRequests[1].editorial_text = TruncateForPrompt(full_text)

\* the first URL failed, the second was fetched, and the call gave a result
C9_Witness ==
    /\ Answered /\ Len(urls) = 2
    /\ ~httpLog[1].content.ok /\ httpLog[2].content.ok
    /\ failed_urls = <<urls[1]>> /\ full_text = httpLog[2].content.text

\* C10: every text that a fetch returned has at least 200 characters, and a page
\* that was received and refused was refused with the content parse error and its
\* URL counts as failed.
C10_MinimumContent ==
    /\ \A k \in 1..Len(all_content) : Len(all_content[k]) >= 200
    /\ \A k \in 1..Len(httpLog) :
          LET fetch == httpLog[k]
          IN  /\ fetch.content.ok => Len(fetch.content.text) >= 200
              /\ (fetch.response.ok /\ ~fetch.content.ok) =>
                    /\ fetch.content.err.cls = "EditorialContentParseError"
                    /\ fetch.url \in Range(failed_urls)

\* the header of document n as the claim spells it
C11_Header(n) ==
    <<"=","=","="," ","E","D","I","T","O","R","I","A","L"," ","S","O","U","R","C","E"," ",
      <<"0","1","2","3","4","5","6","7","8","9">>[n + 1], " ","=","=","=">>

\* the number of places of text where word stands
Occurrences(text, word) ==
    Cardinality({i \in 1..(Len(text) - Len(word) + 1) :
                    SubSeq(text, i, i + Len(word) - 1) = word})

RECURSIVE C11_Layout(_, _)
\* header n, a blank line and document n, for n from k on, a blank line between
C11_Layout(docs, n) ==
    IF n > Len(docs) THEN <<>>
    ELSE (IF n > 1 THEN <<"\n","\n">> ELSE <<>>)
            \o C11_Header(n) \o <<"\n","\n">> \o docs[n] \o C11_Layout(docs, n + 1)

RECURSIVE OccurrencesIn(_, _, _)
OccurrencesIn(docs, n, word) ==
    IF n > Len(docs) THEN 0
    ELSE Occurrences(docs[n], word) + OccurrencesIn(docs, n + 1, word)

C11_HeaderStart == SubSeq(C11_Header(1), 1, 21)

C12_Resolve(url) ==
    IF url # <<>> /\ url[1] = "/" THEN Chars("https://codeforces.com") \o url ELSE url

\* the place of the page scan where the URL is first linked with a text
C12_FirstLinked(url) ==
    Min({i \in 1..Len(SearchAreas(soup)) :
            /\ C12_Resolve(SearchAreas(soup)[i].href) = C12_Resolve(url)
            /\ SearchAreas(soup)[i].text # <<>>})

\* C12: the candidate list holds no two entries with the same absolute URL,
\* relative URLs resolved against https://codeforces.com, has at most 20 entries,
\* and keeps the order of the scan.
C12_LinkDeduplication ==
    links # NoCall =>
        /\ \A i, j \in 1..Len(links.v) :
              C12_Resolve(links.v[i].url) = C12_Resolve(links.v[j].url) => i = j
        /\ Len(links.v) <= 20
        /\ \A i, j \in 1..Len(links.v) :
              i < j => C12_FirstLinked(links.v[i].url) < C12_FirstLinked(links.v[j].url)

\* C13: with a finder that has no LLM client, and with an empty candidate list,
\* the selection is the empty list, not null, and no request went to the LLM.
C13_SelectorShortCircuit ==
    (/\ pc = "discovered" /\ llm_editorial_finder
     /\ (~finder_llm \/ links = JList(<<>>))) =>
        /\ findOut = JList(<<>>)
        /\ finderRequests = <<>>

\* C14: the selection is read from the first '{' of the reply on: when that text
\* decodes to an object whose "url" is a non-empty value U the selection is [U],
\* when its "url" is null there is no selection, and when it does not decode
\* there is no selection either.
C14_SelectorParsing ==
    (pc = "discovered" /\ finderReply # NoReply /\ finderReply.exc = "") =>
        IF Decodes(finderReply.text)
        THEN LET url == GetMember(Decoded(finderReply.text), URL_KEY)
             IN  /\ Truthy(url) => findOut = JList(<<url>>)
                 /\ url = JNull => ~Truthy(findOut)
        ELSE ~Truthy(findOut)

\* what the finder selected, nothing when there is no finder
C15_Selection == IF findOut = NoCall THEN JNull ELSE findOut

\* C15: discovery on a page always ends with a value; a non-empty selection of the
\* LLM is the result, and without a finder or an LLM client, after an error of the
\* LLM and with no selection, the result is what the regex heuristic gives on the
\* page.
C15_DiscoveryDegrades ==
    pc = "discovered" =>
        /\ discOut # NoCall
        /\ IF Truthy(C15_Selection) THEN discOut = findOut
           ELSE discOut = ExtractEditorialUrlRegex(soup)
        /\ (~llm_editorial_finder \/ ~finder_llm \/ finderReply.exc # "")
              => discOut = ExtractEditorialUrlRegex(soup)

\* after an error of the LLM the regex heuristic found the tutorial link
C15_Witness ==
    /\ pc = "discovered" /\ finderReply.exc = "LLMError"
    /\ findOut = JNull
    /\ discOut = JStr(Chars("https://codeforces.com/blog/entry/1"))

RECURSIVE C16_NoTrailingSlash(_)
\* a URL without its trailing slashes
C16_NoTrailingSlash(url) ==
    IF url # <<>> /\ url[Len(url)] = "/"
    THEN C16_NoTrailingSlash(SubSeq(url, 1, Len(url) - 1))
    ELSE url

\* two URLs are the same but for trailing slashes and letter case
C16_SameUrl(a, b) ==
    LET x == C16_NoTrailingSlash(a)
        y == C16_NoTrailingSlash(b)
    IN  /\ Len(x) = Len(y)
        /\ \A i \in 1..Len(x) : LowerChar(x[i]) = LowerChar(y[i])

\* C16: a run is correct exactly when nothing is expected and nothing was found,
\* or a URL is expected and some found URL equals it but for trailing slashes and
\* letter case.
C16_CorrectnessRule ==
    isCorrectOut.kind # "nocall" =>
        /\ isCorrectOut.kind = "bool"
        /\ isCorrectOut.v <=>
              \/ tcExpected = JNull /\ tcFound.v = <<>>
              \/ /\ tcExpected # JNull
                 /\ \E i \in 1..Len(tcFound.v) :
                       C16_SameUrl(tcFound.v[i].v, tcExpected.v)

\* the expected URL was found as the second URL, in another case and with slashes
C16_Witness ==
    /\ isCorrectOut.kind = "bool" /\ isCorrectOut.v
    /\ tcExpected = JStr(Chars("https://x/1"))
    /\ tcFound = JList(<<JStr(Chars("https://x/2")), JStr(Chars("HTTPS://X/1//"))>>)

\* the runs of the averaged test case that were correct
C17_CorrectRuns == {i \in 1..Len(runResults) : runResults[i].is_correct}

\* how many runs found exactly this list
C17_Times(found) ==
    Cardinality({i \in 1..Len(runResults) : runResults[i].found_editorial = found})

\* the first run that found exactly this list
C17_FirstSeen(found) ==
    Min({i \in 1..Len(runResults) : runResults[i].found_editorial = found})

\* the runs that had an error
C17_Errored == {i \in 1..Len(runResults) : runResults[i].error # JNull}

RECURSIVE C17_Total(_)
\* the latencies of the first n runs added up
C17_Total(n) == IF n = 0 THEN 0 ELSE C17_Total(n - 1) + runResults[n].latency_ms

\* C17: over n runs the averaged result is correct exactly when the correct runs
\* are strictly more than half, its found list is the most frequent one and among
\* equally frequent ones the first seen, its error is that of the earliest run
\* with an error (None if there is none), and its latency is the mean.
C17_Aggregation ==
    averaged.kind = "return" =>
        LET r == averaged.v
            n == runs_per_test
        IN  /\ Len(runResults) = n
            /\ r.is_correct <=> Cardinality(C17_CorrectRuns) * 2 > n
            /\ n % 2 = 0 /\ Cardinality(C17_CorrectRuns) * 2 = n => ~r.is_correct
            /\ \E i \in 1..n : runResults[i].found_editorial = r.found_editorial
            /\ \A i \in 1..n :
                  LET other == runResults[i].found_editorial
                  IN  \/ C17_Times(other) < C17_Times(r.found_editorial)
                      \/ /\ C17_Times(other) = C17_Times(r.found_editorial)
                         /\ C17_FirstSeen(r.found_editorial) <= C17_FirstSeen(other)
            /\ IF C17_Errored = {} THEN r.error = JNull
               ELSE r.error = runResults[Min(C17_Errored)].error
            /\ r.latency_ms.num * n = C17_Total(n) * r.latency_ms.den
            /\ r.latency_ms.den # 0

\* two runs, the first failed and the second correct: a tie of the vote and of the
\* found lists, with the error kept
C17_Witness ==
    /\ averaged.kind = "return"
    /\ runs_per_test = 2
    /\ runResults[1].error = HTTP_ERROR
    /\ runResults[2].is_correct /\ runResults[2].found_editorial = JList(<<PICKED>>)
    /\ ~averaged.v.is_correct
    /\ averaged.v.found_editorial = JList(<<>>)
    /\ averaged.v.error = HTTP_ERROR

\* C18: whatever a discovery run meets, benchmark_model never raises and returns
\* metrics that cover every test case.
C18_ErrorsCaptured ==
    /\ benchOut.kind # "raise"
    /\ benchOut.kind = "return" =>
          Len(benchOut.v.test_results) = Len(test_cases)

\* the results without an error
C19_ErrorFree == {i \in 1..Len(results) : results[i].error = JNull}

\* the results without an error that are correct
C19_Correct == {i \in C19_ErrorFree : results[i].is_correct}

RECURSIVE C19_Den(_)
\* a common denominator of the latencies of the first n results
C19_Den(n) == IF n = 0 THEN 1 ELSE C19_Den(n - 1) * results[n].latency_ms.den

RECURSIVE C19_Num(_)
\* the error-free latencies of the first n results added up, over C19_Den
C19_Num(n) ==
    IF n = 0 THEN 0
    ELSE C19_Num(n - 1)
           + (IF n \in C19_ErrorFree
              THEN results[n].latency_ms.num
                     * (C19_Den(Len(results)) \div results[n].latency_ms.den)
              ELSE 0)

\* two fractions of the same value
C19_Same(a, b) == a.num * b.den = b.num * a.den

\* a is below b
C19_Below(a, b) == a.num * b.den < b.num * a.den

\* the value is one of the error-free latencies
C19_Measured(x) == \E i \in C19_ErrorFree : C19_Same(x, results[i].latency_ms)

\* C19: total = successful + failed with failed the results that have an error;
\* accuracy is 100 * correct-and-error-free / successful, 0 without an error-free
\* result; the latency statistics are those of the error-free results; TP, FP, FN
\* and TN count the results by expected, found and correct as stated.
C19_Metrics ==
    metrics.kind = "return" =>
        LET m == metrics.v
            n == Cardinality(C19_ErrorFree)
            has(i) == results[i].expected_editorial # JNull
            any(i) == results[i].found_editorial.v # <<>>
            all == 1..Len(results)
        IN  /\ m.total_tests = Len(results)
            /\ m.total_tests = m.successful_tests + m.failed_tests
            /\ m.failed_tests = Cardinality(all \ C19_ErrorFree)
            /\ IF n = 0 THEN m.accuracy.num = 0
               ELSE m.accuracy.num * n = 100 * Cardinality(C19_Correct) * m.accuracy.den
            /\ m.accuracy.den > 0
            /\ IF n = 0
               THEN /\ m.avg_latency_ms.num = 0 /\ m.median_latency_ms.num = 0
                    /\ m.min_latency_ms.num = 0 /\ m.max_latency_ms.num = 0
               ELSE /\ m.avg_latency_ms.num * n * C19_Den(Len(results))
                          = C19_Num(Len(results)) * m.avg_latency_ms.den
                    /\ C19_Measured(m.min_latency_ms)
                    /\ C19_Measured(m.max_latency_ms)
                    /\ C19_Measured(m.median_latency_ms)
                    /\ \A i \in C19_ErrorFree :
                          /\ ~C19_Below(results[i].latency_ms, m.min_latency_ms)
                          /\ ~C19_Below(m.max_latency_ms, results[i].latency_ms)
                    /\ Cardinality({i \in C19_ErrorFree :
                          C19_Below(results[i].latency_ms, m.median_latency_ms)})
                         <= n \div 2
                    /\ Cardinality({i \in C19_ErrorFree :
                          ~C19_Below(m.median_latency_ms, results[i].latency_ms)})
                         > n \div 2
            /\ m.true_positives
                 = Cardinality({i \in all : has(i) /\ any(i) /\ results[i].is_correct})
            /\ m.false_positives
                 = Cardinality({i \in all : ~has(i) /\ any(i) /\ ~results[i].is_correct})
            /\ m.false_negatives = Cardinality({i \in all : has(i) /\ ~any(i)})
            /\ m.true_negatives
                 = Cardinality({i \in all : ~has(i) /\ ~any(i) /\ results[i].is_correct})

\* three results: a found editorial, a failed fetch of a contest without editorial
\* (correct, but with an error) and a wrong find; one of two error-free is correct
C19_Witness ==
    /\ metrics.kind = "return"
    /\ Len(results) = 3
    /\ metrics.v.failed_tests = 1 /\ metrics.v.successful_tests = 2
    /\ \E i \in 1..3 : results[i].error # JNull /\ results[i].is_correct
    /\ metrics.v.accuracy = Frac(100, 2)
    /\ metrics.v.true_positives = 1 /\ metrics.v.false_positives = 1
    /\ metrics.v.true_negatives = 1

\* get_contest found no editorial URL: it went through, and the page parser failed
\* or its data named none
C20_NoneDiscovered ==
    /\ contestWorld.standings /\ contestWorld.type = "CF" /\ contestWorld.problemset
    /\ ~contestWorld.page \/ contestWorld.editorial_urls = <<>>

\* C20: with an empty URL list, or with none passed and no editorial URL
\* discovered, get_editorial_content fails with EditorialNotFoundError before any
\* page is fetched and any segmentation is requested; with a non-empty list a
\* result carries the requested contest id.
C20_NoEditorialUrls ==
    /\ pc = "done" /\ editorial_urls.given /\ editorial_urls.urls = <<>> =>
          /\ editorial_data.kind = "raise"
          /\ editorial_data.cls = "EditorialNotFoundError"
          /\ httpLog = <<>> /\ llmRequests = <<>>
    /\ pc = "done" /\ ~editorial_urls.given /\ C20_NoneDiscovered =>
          /\ editorial_data.kind = "raise"
          /\ editorial_data.cls = "EditorialNotFoundError"
          /\ httpLog = <<>> /\ llmRequests = <<>>
    /\ pc = "done" /\ editorial_urls.given /\ editorial_urls.urls # <<>>
         /\ editorial_data.kind = "ok" =>
          editorial_data.contest = requested

\* the entries of problemset.problems for the problem of the call
C21_Matching ==
    {i \in 1..Len(problem_map) :
        problem_map[i].key = <<requested, api_problem_data.index>>}

\* C21: the rating and tags of a problem are those of its contest.standings entry
\* when that has a rating, else those of its problemset.problems entry, else None
\* and no tags; the problem is returned in every case.
C21_RatingPrecedence ==
    problemOut.kind # "nocall" =>
        /\ problemOut.kind = "return"
        /\ IF api_problem_data.rating # JNull
           THEN /\ problemOut.v.rating = api_problem_data.rating
                /\ problemOut.v.tags = api_problem_data.tags
           ELSE IF C21_Matching # {}
           THEN \E i \in C21_Matching :
                   /\ problemOut.v.rating = problem_map[i].value.rating
                   /\ problemOut.v.tags = problem_map[i].value.tags
           ELSE problemOut.v.rating = JNull /\ problemOut.v.tags = <<>>

\* C22: with two or more URLs the fetch of a later URL starts before the fetch of
\* an earlier one has ended, and the combined document is in the order of the URLs.
C22_ConcurrentFetch ==
    pc = "segment" /\ Len(urls) >= 2 =>
        /\ \E k \in 2..Len(httpLog) : httpLog[k].after < k - 1
        /\ [k \in 1..Len(httpLog) |-> httpLog[k].url] = urls
        /\ full_text = CombineEditorialContent(FetchedTexts(httpLog, 1))

\* the test cases benchmark_model has started, and those that have completed: the
\* cases of the batches gathered so far and the tasks of the batch that have returned
C23_Started == 1..(batch_i + Len(taskOut))
C23_Completed ==
    (1..Len(results)) \cup {batch_i + k : k \in {j \in 1..Len(taskOut) : taskOut[j].kind # "nocall"}}
C23_BatchOf(c) == (c - 1) \div parallel_requests

\* C23: benchmark_model runs the test cases in consecutive batches of at most
\* parallel_requests cases; no case of a batch is started before every case of the
\* batches before it has completed, so at most parallel_requests cases are in flight;
\* a test case has at most one run in flight and its runs are made one after another;
\* the collected results are in the order of the test cases
C23_Scheduling ==
    /\ pc = "benchmark" =>
          /\ batch_i % parallel_requests = 0
          /\ Len(taskOut) = Min({parallel_requests, Len(test_cases) - batch_i})
          /\ Len(taskOut) >= 1
          /\ \A c \in C23_Started : \A d \in 1..(c - 1) :
                C23_BatchOf(d) < C23_BatchOf(c) => d \in C23_Completed
          /\ Cardinality(C23_Started \ C23_Completed) <= parallel_requests
    /\ \A k \in 1..Len(running) :
          /\ running[k] <= 1
          /\ Len(taskRuns[k]) + running[k] <= runs_per_test
    /\ Len(results) <= Len(test_cases)
    /\ \A c \in 1..Len(results) : results[c].contest_id = test_cases[c].contest_id
    /\ pc = "benchmarked" /\ benchOut.kind = "return" => Len(results) = Len(test_cases)

\* the second batch is under way: the cases of the first have their results, and a
\* task has made its first run and awaits its second
C23_Witness ==
    /\ pc = "benchmark" /\ batch_i > 0 /\ Len(results) = batch_i
    /\ \E k \in 1..Len(taskOut) :
          taskOut[k].kind = "nocall" /\ Len(taskRuns[k]) = 1 /\ running[k] = 1

C24_Request(c, ok) == [contest_id |-> c, ok |-> ok]

\* the cache holds the pages of the answered requests, one request each
C24_Populated ==
    /\ html_cache = {e.contest_id : e \in {r \in BagToSet(netLog) : r.ok}}
    /\ \A c \in html_cache : CopiesIn(C24_Request(c, TRUE), netLog) = 1

\* a step removes no page from the cache, makes no request for a page the cache
\* holds, and stores a page only with an answered request for it
C24_Step ==
    /\ html_cache \subseteq html_cache'
    /\ \A c \in html_cache : \A ok \in BOOLEAN :
          CopiesIn(C24_Request(c, ok), netLog') = CopiesIn(C24_Request(c, ok), netLog)
    /\ \A c \in html_cache' \ html_cache :
          CopiesIn(C24_Request(c, TRUE), netLog') = CopiesIn(C24_Request(c, TRUE), netLog) + 1
    /\ \A c \in {tc.contest_id : tc \in Range(test_cases)} :
          CopiesIn(C24_Request(c, FALSE), netLog') > CopiesIn(C24_Request(c, FALSE), netLog)
              => c \notin html_cache'

C25_Idempotent ==
    pc = "cleaned_again" => cleanAgain.v = cleanOut.v

\* C26: in new-schema parsing a malformed element of the array (not an object, a
\* problem id that is whitespace-only or not a string, an analysis that is not a
\* string) is dropped: the parse never raises and returns every valid row of the reply
C26_MalformedRowsDropped ==
    (pOut.kind # "nocall" /\ Decodes(pResp) /\ HasProblemsList(Decoded(pResp))) =>
        LET rows == ProblemsOf(Decoded(pResp))
        IN  /\ pOut.kind = "ok"
            /\ \A i \in 1..Len(rows) :
                  RowValid(rows[i]) => RowKey(rows[i]) \in Keys(pOut.dict)

\* the reply decoded and the parse returned a map without entries
C27_NothingValid ==
    /\ llmReply.exc = ""
    /\ llmReply # NoReply
    /\ ParseLLMResponse(llmReply.text, requested).kind = "ok"
    /\ ParseLLMResponse(llmReply.text, requested).dict = <<>>

\* C27: the segmentation never returns an empty map: when the reply decodes and
\* gives no valid entry it ends with the segmentation error, and a ContestEditorial
\* that parse_editorial_content returns holds at least one editorial
C27_NeverEmpty ==
    /\ pc \in {"segmented", "done"} /\ segOut.kind = "ok" => segOut.dict # <<>>
    /\ pc \in {"segmented", "done"} /\ C27_NothingValid =>
          /\ segOut.kind = "raise"
          /\ segOut.err.cls = "LLMSegmentationError"
          /\ segOut.err.contest = requested
    /\ pc = "done" /\ editorial_data.kind = "ok" => Len(editorial_data.editorials) >= 1
    /\ pc = "done" /\ C27_NothingValid =>
          editorial_data.kind # "ok" /\ editorial_data.cls = "LLMSegmentationError"

\* the reply was an array whose rows are all invalid, and the call has ended
C27_Witness ==
    /\ pc = "done" /\ C27_NothingValid
    /\ llmReply.text = <<JsonTok(InvalidRowsNew)>>
    /\ segOut.kind = "raise"

\* C28: every URL the LLM-backed selection returns is the URL of one of the candidate
\* links that were extracted from the page and listed in the prompt
C28_FromCandidates ==
    (pc = "discovered" /\ Len(finderRequests) = 1 /\ findOut.t = "list") =>
        \A i \in 1..Len(findOut.v) :
            \E j \in 1..Len(finderRequests[1]) :
                JStr(finderRequests[1][j].url) = findOut.v[i]

\* C29: the is_correct of an averaged result is the correctness rule applied to the
\* expected editorial and the found list of that result: none is correct with an
\* empty found list when an editorial is expected, none is incorrect with an empty
\* found list when no editorial is expected
C29_AveragedConsistent ==
    averaged.kind = "return" =>
        LET r == averaged.v
            rule == IsResultCorrect(r.expected_editorial, r.found_editorial)
        IN  /\ rule.kind = "bool"
            /\ r.is_correct = rule.v
            /\ ~(r.is_correct /\ r.expected_editorial # JNull
                    /\ r.found_editorial = JList(<<>>))
            /\ ~(~r.is_correct /\ r.expected_editorial = JNull
                    /\ r.found_editorial = JList(<<>>))

C30_Later == {"tutorial_finder", "tutorial_parser", "editorial_extractor"}

\* a call that found the problem's entry returns the cached editorial and invokes
\* neither the tutorial finder nor the tutorial parser nor the extractor
C30_Hit(r) ==
    r.hit =>
        /\ r.out.kind = "return"
        /\ \E e \in r.before :
              e.key = CacheKey(r.identifier) /\ r.out.v = FromDict(e.data).editorial
        /\ Range(r.invoked) \cap C30_Later = {}
        /\ r.after = r.before

\* a call that missed runs the pipeline and writes its editorial under the problem's
\* key only when the pipeline succeeded; a failing read is a miss and a failing write
\* is ignored
C30_Miss(r) ==
    ~r.hit =>
        /\ r.invoked[1] = "problem_parser"
        /\ r.out.kind = "return" => r.invoked = PipelineSteps
        /\ \A k \in 1..Len(r.ops) :
              r.ops[k].op = "set" =>
                  /\ r.out.kind = "return"
                  /\ r.ops[k].key = CacheKey(r.identifier)
        /\ r.after # r.before =>
              /\ r.out.kind = "return"
              /\ [key |-> CacheKey(r.identifier),
                  data |-> ToDict(CachedEditorial(r.identifier, r.out.v))] \in r.after
        /\ \A e \in r.after : e.key # CacheKey(r.identifier) => e \in r.before

\* after a call that wrote the editorial, the next call for the problem whose read
\* does not fail is a hit
C30_ThenHit(k) ==
    LET r == orchRequests[k]
        n == orchRequests[k + 1]
    IN  (/\ \E j \in 1..Len(r.ops) : r.ops[j].op = "set" /\ r.ops[j].ok
         /\ n.identifier = r.identifier
         /\ \A j \in 1..Len(n.ops) : n.ops[j].ok)
            => (n.hit /\ (n.out.kind = "return" => n.out.v = r.out.v))

\* C30: with caching enabled, a hit returns the cached editorial without the tutorial
\* finder, the tutorial parser and the extractor; a miss runs the pipeline and writes
\* the editorial under the problem's key only after the pipeline succeeded, so that a
\* later call for the problem is a hit; a failing read is a miss, a failing write is
\* ignored; without a cache client no cache operation is issued
C30_CacheAside ==
    /\ \A k \in 1..Len(orchRequests) :
          /\ use_cache /\ cache_client =>
                C30_Hit(orchRequests[k]) /\ C30_Miss(orchRequests[k])
          /\ ~cache_client => orchRequests[k].ops = <<>> /\ ~orchRequests[k].hit
    /\ \A k \in 1..(Len(orchRequests) - 1) :
          use_cache /\ cache_client => C30_ThenHit(k)

====
